---- MODULE Spec2Model ----
(***************************************************************************)
(* Model of @metaxia/scriptures-core: the letter-value engine (Hebrew,     *)
(* Greek, English), the method registry, and the lazy word/verse gematria  *)
(* containers.                                                             *)
(*                                                                         *)
(* A text is a sequence of UTF-16 code units.  A letter is written as the  *)
(* one-character string holding it; a combining mark is written as the     *)
(* token "U+xxxx" naming its code point.                                   *)
(***************************************************************************)
EXTENDS Integers, Sequences, FiniteSets, TLC

VARIABLES
  methods,          \* gematria/index.ts `methods`: slug -> method
  simpleNameIndex,  \* gematria/index.ts `simpleNameIndex`: "language:alias" -> method
  calls,            \* every registerMethod call so far, oldest first
  text,             \* the string handed to a text-level function or word container
  words,            \* the word array a verse-level container wraps
  lastIndex,        \* hebrew/gematria/index.ts HEBREW_LETTER_REGEX.lastIndex
  number,           \* the number handed to a numeric function
  result,           \* the last call: what was called, with what, and its outcome
  sources,          \* index.ts `sources`: edition -> scripture source
  sourceCalls,      \* every call that changed `sources` so far, oldest first
  requests,         \* the verse numbers the latest verse query asked the
                    \* loaders for, in order
  pending,          \* the verse query that awaits a loader, with its position
  containers,       \* the word-level and the verse-level container a caller holds
  lastRead          \* the latest property read of a container

vars ==
  << methods, simpleNameIndex, calls, text, words, lastIndex, number, result,
     sources, sourceCalls, requests, pending, containers, lastRead >>

\* the state of the source registry and of the verse loaders
sourceVars == << sources, sourceCalls, requests, pending >>

\* the containers a caller holds and what it last read from them
lazyVars == << containers, lastRead >>

\* no verse query is waiting
NoPending == [op |-> "none"]

\* no source registered, no loader asked
NoSources ==
  /\ sources = << >>
  /\ sourceCalls = << >>
  /\ requests = << >>
  /\ pending = NoPending

\* no container
NoContainer == [kind |-> "none"]

\* nothing read
NoRead == [op |-> "none"]

\* no container constructed, nothing read
NoContainers ==
  /\ containers = [kind \in { "word", "verse" } |-> NoContainer]
  /\ lastRead = NoRead

(***************************************************************************)
(* Sequences                                                               *)
(***************************************************************************)
Range(s) == { s[i] : i \in 1..Len(s) }

IndexOf(s, x) == CHOOSE i \in 1..Len(s) : s[i] = x

RECURSIVE Flatten(_)
\* the concatenation of a sequence of sequences
Flatten(ss) == IF ss = << >> THEN << >> ELSE Head(ss) \o Flatten(Tail(ss))

RECURSIVE SumSeq(_)
SumSeq(s) == IF s = << >> THEN 0 ELSE Head(s) + SumSeq(Tail(s))

RECURSIVE Dedup(_)
\* [...new Set(xs)]: first occurrences, in order
Dedup(s) ==
  IF s = << >> THEN << >>
  ELSE LET init == Dedup(SubSeq(s, 1, Len(s) - 1))
           last == s[Len(s)]
       IN  IF last \in Range(init) THEN init ELSE Append(init, last)

\* all sequences over S of length at most n
SeqsUpTo(S, n) == UNION { [1..k -> S] : k \in 0..n }

(***************************************************************************)
(* Characters and their code points                                        *)
(***************************************************************************)
LATIN_UPPER ==   \* U+0041..U+005A
  << "A", "B", "C", "D", "E", "F", "G", "H", "I", "J", "K", "L", "M",
     "N", "O", "P", "Q", "R", "S", "T", "U", "V", "W", "X", "Y", "Z" >>

LATIN_LOWER ==   \* U+0061..U+007A
  << "a", "b", "c", "d", "e", "f", "g", "h", "i", "j", "k", "l", "m",
     "n", "o", "p", "q", "r", "s", "t", "u", "v", "w", "x", "y", "z" >>

GREEK_UPPER_1 == \* U+0391..U+03A1
  << "Α", "Β", "Γ", "Δ", "Ε", "Ζ", "Η", "Θ", "Ι", "Κ", "Λ", "Μ", "Ν", "Ξ", "Ο", "Π", "Ρ" >>

GREEK_UPPER_2 == \* U+03A3..U+03A9
  << "Σ", "Τ", "Υ", "Φ", "Χ", "Ψ", "Ω" >>

GREEK_LOWER ==   \* U+03B1..U+03C9 (final sigma is U+03C2)
  << "α", "β", "γ", "δ", "ε", "ζ", "η", "θ", "ι", "κ", "λ", "μ", "ν",
     "ξ", "ο", "π", "ρ", "ς", "σ", "τ", "υ", "φ", "χ", "ψ", "ω" >>

HEBREW_LETTERS == \* U+05D0..U+05EA, the 22 consonants and 5 final forms
  << "א", "ב", "ג", "ד", "ה", "ו", "ז", "ח", "ט", "י", "ך", "כ", "ל", "ם",
     "מ", "ן", "נ", "ס", "ע", "ף", "פ", "ץ", "צ", "ק", "ר", "ש", "ת" >>

\* the code points outside those runs that the model names
OTHER_CODE_POINTS ==
  ( " " :> 32 @@ "1" :> 49
  @@ "U+0301" :> 769      \* COMBINING ACUTE ACCENT
  @@ "U+0345" :> 837      \* COMBINING GREEK YPOGEGRAMMENI (iota subscript)
  @@ "ά" :> 940           \* GREEK SMALL LETTER ALPHA WITH TONOS
  @@ "Ϛ" :> 986 @@ "ϛ" :> 987     \* stigma
  @@ "Ϟ" :> 990 @@ "ϟ" :> 991     \* koppa
  @@ "Ϡ" :> 992 @@ "ϡ" :> 993     \* sampi
  @@ "U+05B0" :> 1456     \* HEBREW POINT SHEVA
  @@ "ᾳ" :> 8115 )        \* GREEK SMALL LETTER ALPHA WITH YPOGEGRAMMENI

CodePoint(c) ==
  IF c \in Range(LATIN_UPPER) THEN 64 + IndexOf(LATIN_UPPER, c)
  ELSE IF c \in Range(LATIN_LOWER) THEN 96 + IndexOf(LATIN_LOWER, c)
  ELSE IF c \in Range(GREEK_UPPER_1) THEN 912 + IndexOf(GREEK_UPPER_1, c)
  ELSE IF c \in Range(GREEK_UPPER_2) THEN 930 + IndexOf(GREEK_UPPER_2, c)
  ELSE IF c \in Range(GREEK_LOWER) THEN 944 + IndexOf(GREEK_LOWER, c)
  ELSE IF c \in Range(HEBREW_LETTERS) THEN 1487 + IndexOf(HEBREW_LETTERS, c)
  ELSE OTHER_CODE_POINTS[c]

InRange(c, lo, hi) == lo <= CodePoint(c) /\ CodePoint(c) <= hi

\* String.prototype.normalize('NFD') of one code unit: the precomposed Greek
\* letters split into base letter and combining mark, the rest is unchanged
NFD(c) ==
  IF c = "ά" THEN << "α", "U+0301" >>
  ELSE IF c = "ᾳ" THEN << "α", "U+0345" >>
  ELSE << c >>

\* the canonical combining class of a code unit: 0 for a starter
CombiningClass(c) ==
  CASE c = "U+05B0" -> 10
    [] c = "U+0301" -> 230
    [] c = "U+0345" -> 240
    [] OTHER -> 0

\* the positions where a mark stands before a mark of a lower class
OutOfOrder(s) ==
  { i \in 1..(Len(s) - 1) :
      /\ CombiningClass(s[i + 1]) > 0
      /\ CombiningClass(s[i]) > CombiningClass(s[i + 1]) }

RECURSIVE CanonicalOrder(_)
\* the canonical ordering of NFD: within a run of marks, marks of a lower
\* class come first and marks of the same class keep their order
CanonicalOrder(s) ==
  IF OutOfOrder(s) = {} THEN s
  ELSE LET i == CHOOSE x \in OutOfOrder(s) : \A y \in OutOfOrder(s) : x <= y
       IN  CanonicalOrder([k \in 1..Len(s) |->
                             IF k = i THEN s[i + 1]
                             ELSE IF k = i + 1 THEN s[i]
                             ELSE s[k]])

\* text.normalize('NFD'): decomposition, then canonical ordering
normalizeNFD(t) == CanonicalOrder(Flatten([i \in 1..Len(t) |-> NFD(t[i])]))

\* \s of a regular expression and String.prototype.trim
IsWhitespace(c) == c = " "

\* table[char] || 0 and table[char] ?? 0 (no table holds a 0)
Lookup(table, c) == IF c \in DOMAIN table THEN table[c] ELSE 0

(***************************************************************************)
(* Outcomes of a call: a number, another JavaScript value, or an exception *)
(***************************************************************************)
\* the value `undefined` where a string is expected (an omitted argument)
UNDEFINED == "(undefined)"

Num(n) == [kind |-> "number", val |-> n]

Throw(e) == [kind |-> "throw", error |-> e]

\* the three-field object computeHebrew, computeGreek and computeEnglish return
Values(s, o, r) == [kind |-> "values", standard |-> s, ordinal |-> o, reduced |-> r]

IsThrow(r) == r.kind = "throw"

(***************************************************************************)
(* Digital root                                                            *)
(***************************************************************************)
RECURSIVE DigitSum(_)
\* String(value).split('').reduce((sum, digit) => sum + parseInt(digit, 10), 0)
DigitSum(n) == IF n < 10 THEN n ELSE (n % 10) + DigitSum(n \div 10)

RECURSIVE digitalRoot(_)
digitalRoot(value) == IF value > 9 THEN digitalRoot(DigitSum(value)) ELSE value

\* A Number beyond the integers at hand is written as coefficient * 10^exponent
\* with a coefficient that is 0 or does not end in 0 when exponent > 0.
NaN == [kind |-> "NaN"]

DIGIT_CHARS == << "0", "1", "2", "3", "4", "5", "6", "7", "8", "9" >>

RECURSIVE DecimalDigits(_)
\* the decimal digits of a non-negative integer, as characters
DecimalDigits(n) ==
  IF n < 10 THEN << DIGIT_CHARS[n + 1] >>
  ELSE Append(DecimalDigits(n \div 10), DIGIT_CHARS[(n % 10) + 1])

\* String(value): the digits followed by the zeros while the number has at
\* most 21 digits, the exponent notation (1e+21, 1.5e+22) from 10^21 on
NumberToString(v) ==
  LET digits == DecimalDigits(v.coefficient)
      length == Len(digits) + v.exponent
  IN  IF v.coefficient = 0 THEN << "0" >>
      ELSE IF length <= 21
      THEN digits \o [i \in 1..v.exponent |-> "0"]
      ELSE << Head(digits) >>
             \o (IF Len(digits) > 1 THEN << "." >> \o Tail(digits) ELSE << >>)
             \o << "e", "+" >> \o DecimalDigits(length - 1)

\* parseInt(digit, 10) of one character
parseInt(digit) ==
  IF digit \in Range(DIGIT_CHARS)
  THEN Num(IndexOf(DIGIT_CHARS, digit) - 1) ELSE NaN

RECURSIVE sumOfDigits(_)
\* String(value).split('').reduce((sum, digit) => sum + parseInt(digit, 10), 0)
sumOfDigits(chars) ==
  IF chars = << >> THEN Num(0)
  ELSE LET sum == sumOfDigits(SubSeq(chars, 1, Len(chars) - 1))
           digit == parseInt(chars[Len(chars)])
       IN  IF sum = NaN \/ digit = NaN THEN NaN ELSE Num(sum.val + digit.val)

\* digitalRoot(value) for a Number of any size: the first round of the loop
\* on String(value), the later rounds on the integer it gives; NaN > 9 is
\* false, so a NaN sum is returned
digitalRootOfNumber(v) ==
  IF v.coefficient > 9 \/ (v.coefficient >= 1 /\ v.exponent >= 1)
  THEN LET sum == sumOfDigits(NumberToString(v))
       IN  IF sum = NaN THEN NaN ELSE Num(digitalRoot(sum.val))
  ELSE Num(v.coefficient)

(***************************************************************************)
(* Letter-value tables                                                     *)
(***************************************************************************)
\* greek/isopsephy/systems.ts STANDARD: Milesian values, 27 letters in both cases and final sigma
STANDARD ==
  ( "Α" :> 1 @@ "Β" :> 2 @@ "Γ" :> 3 @@ "Δ" :> 4 @@ "Ε" :> 5 @@ "Ϛ" :> 6
  @@ "Ζ" :> 7 @@ "Η" :> 8 @@ "Θ" :> 9 @@ "Ι" :> 10 @@ "Κ" :> 20 @@ "Λ" :> 30
  @@ "Μ" :> 40 @@ "Ν" :> 50 @@ "Ξ" :> 60 @@ "Ο" :> 70 @@ "Π" :> 80 @@ "Ϟ" :> 90
  @@ "Ρ" :> 100 @@ "Σ" :> 200 @@ "Τ" :> 300 @@ "Υ" :> 400 @@ "Φ" :> 500 @@ "Χ" :> 600
  @@ "Ψ" :> 700 @@ "Ω" :> 800 @@ "Ϡ" :> 900 @@ "α" :> 1 @@ "β" :> 2 @@ "γ" :> 3
  @@ "δ" :> 4 @@ "ε" :> 5 @@ "ϛ" :> 6 @@ "ζ" :> 7 @@ "η" :> 8 @@ "θ" :> 9
  @@ "ι" :> 10 @@ "κ" :> 20 @@ "λ" :> 30 @@ "μ" :> 40 @@ "ν" :> 50 @@ "ξ" :> 60
  @@ "ο" :> 70 @@ "π" :> 80 @@ "ϟ" :> 90 @@ "ρ" :> 100 @@ "σ" :> 200 @@ "ς" :> 200
  @@ "τ" :> 300 @@ "υ" :> 400 @@ "φ" :> 500 @@ "χ" :> 600 @@ "ψ" :> 700 @@ "ω" :> 800
  @@ "ϡ" :> 900 )

\* greek/isopsephy/systems.ts ORDINAL: positions 1..24, archaic letters omitted
ORDINAL ==
  ( "Α" :> 1 @@ "Β" :> 2 @@ "Γ" :> 3 @@ "Δ" :> 4 @@ "Ε" :> 5 @@ "Ζ" :> 6
  @@ "Η" :> 7 @@ "Θ" :> 8 @@ "Ι" :> 9 @@ "Κ" :> 10 @@ "Λ" :> 11 @@ "Μ" :> 12
  @@ "Ν" :> 13 @@ "Ξ" :> 14 @@ "Ο" :> 15 @@ "Π" :> 16 @@ "Ρ" :> 17 @@ "Σ" :> 18
  @@ "Τ" :> 19 @@ "Υ" :> 20 @@ "Φ" :> 21 @@ "Χ" :> 22 @@ "Ψ" :> 23 @@ "Ω" :> 24
  @@ "α" :> 1 @@ "β" :> 2 @@ "γ" :> 3 @@ "δ" :> 4 @@ "ε" :> 5 @@ "ζ" :> 6
  @@ "η" :> 7 @@ "θ" :> 8 @@ "ι" :> 9 @@ "κ" :> 10 @@ "λ" :> 11 @@ "μ" :> 12
  @@ "ν" :> 13 @@ "ξ" :> 14 @@ "ο" :> 15 @@ "π" :> 16 @@ "ρ" :> 17 @@ "σ" :> 18
  @@ "ς" :> 18 @@ "τ" :> 19 @@ "υ" :> 20 @@ "φ" :> 21 @@ "χ" :> 22 @@ "ψ" :> 23
  @@ "ω" :> 24 )

\* gematria/greek.ts GREEK_VALUES
GREEK_VALUES ==
  ( "Α" :> 1 @@ "Β" :> 2 @@ "Γ" :> 3 @@ "Δ" :> 4 @@ "Ε" :> 5 @@ "Ϛ" :> 6
  @@ "Ζ" :> 7 @@ "Η" :> 8 @@ "Θ" :> 9 @@ "Ι" :> 10 @@ "Κ" :> 20 @@ "Λ" :> 30
  @@ "Μ" :> 40 @@ "Ν" :> 50 @@ "Ξ" :> 60 @@ "Ο" :> 70 @@ "Π" :> 80 @@ "Ϟ" :> 90
  @@ "Ρ" :> 100 @@ "Σ" :> 200 @@ "Τ" :> 300 @@ "Υ" :> 400 @@ "Φ" :> 500 @@ "Χ" :> 600
  @@ "Ψ" :> 700 @@ "Ω" :> 800 @@ "Ϡ" :> 900 @@ "α" :> 1 @@ "β" :> 2 @@ "γ" :> 3
  @@ "δ" :> 4 @@ "ε" :> 5 @@ "ϛ" :> 6 @@ "ζ" :> 7 @@ "η" :> 8 @@ "θ" :> 9
  @@ "ι" :> 10 @@ "κ" :> 20 @@ "λ" :> 30 @@ "μ" :> 40 @@ "ν" :> 50 @@ "ξ" :> 60
  @@ "ο" :> 70 @@ "π" :> 80 @@ "ϟ" :> 90 @@ "ρ" :> 100 @@ "σ" :> 200 @@ "ς" :> 200
  @@ "τ" :> 300 @@ "υ" :> 400 @@ "φ" :> 500 @@ "χ" :> 600 @@ "ψ" :> 700 @@ "ω" :> 800
  @@ "ϡ" :> 900 )

\* gematria/greek.ts GREEK_ORDINAL
GREEK_ORDINAL ==
  ( "Α" :> 1 @@ "α" :> 1 @@ "Β" :> 2 @@ "β" :> 2 @@ "Γ" :> 3 @@ "γ" :> 3
  @@ "Δ" :> 4 @@ "δ" :> 4 @@ "Ε" :> 5 @@ "ε" :> 5 @@ "Ζ" :> 6 @@ "ζ" :> 6
  @@ "Η" :> 7 @@ "η" :> 7 @@ "Θ" :> 8 @@ "θ" :> 8 @@ "Ι" :> 9 @@ "ι" :> 9
  @@ "Κ" :> 10 @@ "κ" :> 10 @@ "Λ" :> 11 @@ "λ" :> 11 @@ "Μ" :> 12 @@ "μ" :> 12
  @@ "Ν" :> 13 @@ "ν" :> 13 @@ "Ξ" :> 14 @@ "ξ" :> 14 @@ "Ο" :> 15 @@ "ο" :> 15
  @@ "Π" :> 16 @@ "π" :> 16 @@ "Ρ" :> 17 @@ "ρ" :> 17 @@ "Σ" :> 18 @@ "σ" :> 18
  @@ "ς" :> 18 @@ "Τ" :> 19 @@ "τ" :> 19 @@ "Υ" :> 20 @@ "υ" :> 20 @@ "Φ" :> 21
  @@ "φ" :> 21 @@ "Χ" :> 22 @@ "χ" :> 22 @@ "Ψ" :> 23 @@ "ψ" :> 23 @@ "Ω" :> 24
  @@ "ω" :> 24 )

\* hebrew/gematria/systems.ts MISPAR_HECHRACHI
MISPAR_HECHRACHI ==
  ( "א" :> 1 @@ "ב" :> 2 @@ "ג" :> 3 @@ "ד" :> 4 @@ "ה" :> 5 @@ "ו" :> 6
  @@ "ז" :> 7 @@ "ח" :> 8 @@ "ט" :> 9 @@ "י" :> 10 @@ "כ" :> 20 @@ "ל" :> 30
  @@ "מ" :> 40 @@ "נ" :> 50 @@ "ס" :> 60 @@ "ע" :> 70 @@ "פ" :> 80 @@ "צ" :> 90
  @@ "ק" :> 100 @@ "ר" :> 200 @@ "ש" :> 300 @@ "ת" :> 400 @@ "ך" :> 20 @@ "ם" :> 40
  @@ "ן" :> 50 @@ "ף" :> 80 @@ "ץ" :> 90 )

\* hebrew/gematria/systems.ts MISPAR_SIDURI
MISPAR_SIDURI ==
  ( "א" :> 1 @@ "ב" :> 2 @@ "ג" :> 3 @@ "ד" :> 4 @@ "ה" :> 5 @@ "ו" :> 6
  @@ "ז" :> 7 @@ "ח" :> 8 @@ "ט" :> 9 @@ "י" :> 10 @@ "כ" :> 11 @@ "ל" :> 12
  @@ "מ" :> 13 @@ "נ" :> 14 @@ "ס" :> 15 @@ "ע" :> 16 @@ "פ" :> 17 @@ "צ" :> 18
  @@ "ק" :> 19 @@ "ר" :> 20 @@ "ש" :> 21 @@ "ת" :> 22 @@ "ך" :> 11 @@ "ם" :> 13
  @@ "ן" :> 14 @@ "ף" :> 17 @@ "ץ" :> 18 )

\* hebrew/gematria/systems.ts MISPAR_KATAN
MISPAR_KATAN ==
  ( "א" :> 1 @@ "ב" :> 2 @@ "ג" :> 3 @@ "ד" :> 4 @@ "ה" :> 5 @@ "ו" :> 6
  @@ "ז" :> 7 @@ "ח" :> 8 @@ "ט" :> 9 @@ "י" :> 1 @@ "כ" :> 2 @@ "ל" :> 3
  @@ "מ" :> 4 @@ "נ" :> 5 @@ "ס" :> 6 @@ "ע" :> 7 @@ "פ" :> 8 @@ "צ" :> 9
  @@ "ק" :> 1 @@ "ר" :> 2 @@ "ש" :> 3 @@ "ת" :> 4 @@ "ך" :> 2 @@ "ם" :> 4
  @@ "ן" :> 5 @@ "ף" :> 8 @@ "ץ" :> 9 )

\* a variant table in which the finals keep the values of their base letters
MISPAR_GADOL_finalsAsBase == MISPAR_HECHRACHI

\* hebrew/gematria/systems.ts MISPAR_GADOL
MISPAR_GADOL ==
  ( "א" :> 1 @@ "ב" :> 2 @@ "ג" :> 3 @@ "ד" :> 4 @@ "ה" :> 5 @@ "ו" :> 6
  @@ "ז" :> 7 @@ "ח" :> 8 @@ "ט" :> 9 @@ "י" :> 10 @@ "כ" :> 20 @@ "ל" :> 30
  @@ "מ" :> 40 @@ "נ" :> 50 @@ "ס" :> 60 @@ "ע" :> 70 @@ "פ" :> 80 @@ "צ" :> 90
  @@ "ק" :> 100 @@ "ר" :> 200 @@ "ש" :> 300 @@ "ת" :> 400 @@ "ך" :> 500 @@ "ם" :> 600
  @@ "ן" :> 700 @@ "ף" :> 800 @@ "ץ" :> 900 )

\* a variant table built from the ordinal positions, not the standard values
MISPAR_KOLEL_ofOrdinals ==
  [c \in DOMAIN MISPAR_SIDURI |->
     (MISPAR_SIDURI[c] * (MISPAR_SIDURI[c] + 1)) \div 2]

\* hebrew/gematria/systems.ts MISPAR_KOLEL
MISPAR_KOLEL ==
  ( "א" :> 1 @@ "ב" :> 3 @@ "ג" :> 6 @@ "ד" :> 10 @@ "ה" :> 15 @@ "ו" :> 21
  @@ "ז" :> 28 @@ "ח" :> 36 @@ "ט" :> 45 @@ "י" :> 55 @@ "כ" :> 75 @@ "ל" :> 105
  @@ "מ" :> 145 @@ "נ" :> 195 @@ "ס" :> 255 @@ "ע" :> 325 @@ "פ" :> 405 @@ "צ" :> 495
  @@ "ק" :> 595 @@ "ר" :> 795 @@ "ש" :> 1095 @@ "ת" :> 1495 @@ "ך" :> 75 @@ "ם" :> 145
  @@ "ן" :> 195 @@ "ף" :> 405 @@ "ץ" :> 495 )

\* hebrew/gematria/systems.ts MISPAR_PERATI
MISPAR_PERATI ==
  ( "א" :> 1 @@ "ב" :> 4 @@ "ג" :> 9 @@ "ד" :> 16 @@ "ה" :> 25 @@ "ו" :> 36
  @@ "ז" :> 49 @@ "ח" :> 64 @@ "ט" :> 81 @@ "י" :> 100 @@ "כ" :> 400 @@ "ל" :> 900
  @@ "מ" :> 1600 @@ "נ" :> 2500 @@ "ס" :> 3600 @@ "ע" :> 4900 @@ "פ" :> 6400 @@ "צ" :> 8100
  @@ "ק" :> 10000 @@ "ר" :> 40000 @@ "ש" :> 90000 @@ "ת" :> 160000 @@ "ך" :> 400 @@ "ם" :> 1600
  @@ "ן" :> 2500 @@ "ף" :> 6400 @@ "ץ" :> 8100 )

\* hebrew/gematria/systems.ts MISPAR_MESHULASH
MISPAR_MESHULASH ==
  ( "א" :> 1 @@ "ב" :> 8 @@ "ג" :> 27 @@ "ד" :> 64 @@ "ה" :> 125 @@ "ו" :> 216
  @@ "ז" :> 343 @@ "ח" :> 512 @@ "ט" :> 729 @@ "י" :> 1000 @@ "כ" :> 8000 @@ "ל" :> 27000
  @@ "מ" :> 64000 @@ "נ" :> 125000 @@ "ס" :> 216000 @@ "ע" :> 343000 @@ "פ" :> 512000 @@ "צ" :> 729000
  @@ "ק" :> 1000000 @@ "ר" :> 8000000 @@ "ש" :> 27000000 @@ "ת" :> 64000000 @@ "ך" :> 8000 @@ "ם" :> 64000
  @@ "ן" :> 125000 @@ "ף" :> 512000 @@ "ץ" :> 729000 )

\* hebrew/gematria/systems.ts MISPAR_CHITZON
MISPAR_CHITZON ==
  ( "א" :> 1 @@ "ב" :> 1 @@ "ג" :> 1 @@ "ד" :> 1 @@ "ה" :> 1 @@ "ו" :> 1
  @@ "ז" :> 1 @@ "ח" :> 1 @@ "ט" :> 1 @@ "י" :> 1 @@ "כ" :> 1 @@ "ל" :> 1
  @@ "מ" :> 1 @@ "נ" :> 1 @@ "ס" :> 1 @@ "ע" :> 1 @@ "פ" :> 1 @@ "צ" :> 1
  @@ "ק" :> 1 @@ "ר" :> 1 @@ "ש" :> 1 @@ "ת" :> 1 @@ "ך" :> 1 @@ "ם" :> 1
  @@ "ן" :> 1 @@ "ף" :> 1 @@ "ץ" :> 1 )

\* hebrew/gematria/systems.ts MISPAR_HAKADMI
MISPAR_HAKADMI ==
  ( "א" :> 1 @@ "ב" :> 3 @@ "ג" :> 6 @@ "ד" :> 10 @@ "ה" :> 15 @@ "ו" :> 21
  @@ "ז" :> 28 @@ "ח" :> 36 @@ "ט" :> 45 @@ "י" :> 55 @@ "כ" :> 66 @@ "ל" :> 78
  @@ "מ" :> 91 @@ "נ" :> 105 @@ "ס" :> 120 @@ "ע" :> 136 @@ "פ" :> 153 @@ "צ" :> 171
  @@ "ק" :> 190 @@ "ר" :> 210 @@ "ש" :> 231 @@ "ת" :> 253 @@ "ך" :> 66 @@ "ם" :> 91
  @@ "ן" :> 105 @@ "ף" :> 153 @@ "ץ" :> 171 )

\* gematria/hebrew.ts HEBREW_STANDARD
HEBREW_STANDARD ==
  ( "א" :> 1 @@ "ב" :> 2 @@ "ג" :> 3 @@ "ד" :> 4 @@ "ה" :> 5 @@ "ו" :> 6
  @@ "ז" :> 7 @@ "ח" :> 8 @@ "ט" :> 9 @@ "י" :> 10 @@ "כ" :> 20 @@ "ך" :> 20
  @@ "ל" :> 30 @@ "מ" :> 40 @@ "ם" :> 40 @@ "נ" :> 50 @@ "ן" :> 50 @@ "ס" :> 60
  @@ "ע" :> 70 @@ "פ" :> 80 @@ "ף" :> 80 @@ "צ" :> 90 @@ "ץ" :> 90 @@ "ק" :> 100
  @@ "ר" :> 200 @@ "ש" :> 300 @@ "ת" :> 400 )

\* greek/isopsephy/systems.ts and gematria/greek.ts ARCHAIC_LETTERS
ARCHAIC_LETTERS == { "Ϛ", "ϛ", "Ϟ", "ϟ", "Ϡ", "ϡ" }

\* gematria/english.ts AGRIPPA_LATIN
AGRIPPA_LATIN ==
  ( "a" :> 1 @@ "A" :> 1 @@ "b" :> 2 @@ "B" :> 2 @@ "c" :> 3 @@ "C" :> 3
  @@ "d" :> 4 @@ "D" :> 4 @@ "e" :> 5 @@ "E" :> 5 @@ "f" :> 6 @@ "F" :> 6
  @@ "g" :> 7 @@ "G" :> 7 @@ "h" :> 8 @@ "H" :> 8 @@ "i" :> 9 @@ "I" :> 9
  @@ "k" :> 10 @@ "K" :> 10 @@ "l" :> 20 @@ "L" :> 20 @@ "m" :> 30 @@ "M" :> 30
  @@ "n" :> 40 @@ "N" :> 40 @@ "o" :> 50 @@ "O" :> 50 @@ "p" :> 60 @@ "P" :> 60
  @@ "q" :> 70 @@ "Q" :> 70 @@ "r" :> 80 @@ "R" :> 80 @@ "s" :> 90 @@ "S" :> 90
  @@ "t" :> 100 @@ "T" :> 100 @@ "u" :> 200 @@ "U" :> 200 @@ "x" :> 300 @@ "X" :> 300
  @@ "y" :> 400 @@ "Y" :> 400 @@ "z" :> 500 @@ "Z" :> 500 @@ "j" :> 600 @@ "J" :> 600
  @@ "v" :> 700 @@ "V" :> 700 @@ "w" :> 900 @@ "W" :> 900 )

\* gematria/english.ts WHITEHEAD_GREEK
WHITEHEAD_GREEK ==
  ( "a" :> 1 @@ "A" :> 1 @@ "b" :> 2 @@ "B" :> 2 @@ "g" :> 3 @@ "G" :> 3
  @@ "d" :> 4 @@ "D" :> 4 @@ "v" :> 5 @@ "V" :> 5 @@ "w" :> 5 @@ "W" :> 5
  @@ "e" :> 5 @@ "E" :> 5 @@ "z" :> 6 @@ "Z" :> 6 @@ "h" :> 8 @@ "H" :> 8
  @@ "j" :> 9 @@ "J" :> 9 @@ "i" :> 9 @@ "I" :> 9 @@ "y" :> 9 @@ "Y" :> 9
  @@ "k" :> 10 @@ "K" :> 10 @@ "l" :> 11 @@ "L" :> 11 @@ "m" :> 12 @@ "M" :> 12
  @@ "n" :> 13 @@ "N" :> 13 @@ "x" :> 14 @@ "X" :> 14 @@ "s" :> 14 @@ "S" :> 14
  @@ "o" :> 15 @@ "O" :> 15 @@ "p" :> 16 @@ "P" :> 16 @@ "r" :> 17 @@ "R" :> 17
  @@ "t" :> 19 @@ "T" :> 19 @@ "u" :> 20 @@ "U" :> 20 @@ "f" :> 21 @@ "F" :> 21
  @@ "c" :> 22 @@ "C" :> 22 @@ "q" :> 8 @@ "Q" :> 8 )

\* gematria/english.ts WHITEHEAD_HEBREW_ENGLISH
WHITEHEAD_HEBREW_ENGLISH ==
  ( "a" :> 1 @@ "A" :> 1 @@ "b" :> 2 @@ "B" :> 2 @@ "c" :> 20 @@ "C" :> 20
  @@ "d" :> 4 @@ "D" :> 4 @@ "e" :> 5 @@ "E" :> 5 @@ "f" :> 80 @@ "F" :> 80
  @@ "g" :> 3 @@ "G" :> 3 @@ "h" :> 5 @@ "H" :> 5 @@ "i" :> 10 @@ "I" :> 10
  @@ "j" :> 10 @@ "J" :> 10 @@ "k" :> 100 @@ "K" :> 100 @@ "l" :> 30 @@ "L" :> 30
  @@ "m" :> 40 @@ "M" :> 40 @@ "n" :> 50 @@ "N" :> 50 @@ "o" :> 70 @@ "O" :> 70
  @@ "p" :> 80 @@ "P" :> 80 @@ "q" :> 100 @@ "Q" :> 100 @@ "r" :> 200 @@ "R" :> 200
  @@ "s" :> 60 @@ "S" :> 60 @@ "t" :> 9 @@ "T" :> 9 @@ "u" :> 6 @@ "U" :> 6
  @@ "v" :> 6 @@ "V" :> 6 @@ "w" :> 6 @@ "W" :> 6 @@ "x" :> 8 @@ "X" :> 8
  @@ "y" :> 10 @@ "Y" :> 10 @@ "z" :> 7 @@ "Z" :> 7 )

\* gematria/english.ts WHITEHEAD_SUBJECTIVE
WHITEHEAD_SUBJECTIVE ==
  ( "A" :> 1 @@ "B" :> 2 @@ "C" :> 3 @@ "D" :> 4 @@ "E" :> 5 @@ "F" :> 6
  @@ "G" :> 7 @@ "H" :> 8 @@ "I" :> 9 @@ "J" :> 10 @@ "K" :> 11 @@ "L" :> 12
  @@ "M" :> 13 @@ "N" :> 114 @@ "O" :> 115 @@ "P" :> 116 @@ "Q" :> 117 @@ "R" :> 118
  @@ "S" :> 119 @@ "T" :> 120 @@ "U" :> 221 @@ "V" :> 222 @@ "W" :> 223 @@ "X" :> 224
  @@ "Y" :> 225 @@ "Z" :> 226 @@ "a" :> 1 @@ "b" :> 2 @@ "c" :> 3 @@ "d" :> 4
  @@ "e" :> 5 @@ "f" :> 6 @@ "g" :> 7 @@ "h" :> 8 @@ "i" :> 9 @@ "j" :> 10
  @@ "k" :> 11 @@ "l" :> 12 @@ "m" :> 13 @@ "n" :> 114 @@ "o" :> 115 @@ "p" :> 116
  @@ "q" :> 117 @@ "r" :> 118 @@ "s" :> 119 @@ "t" :> 120 @@ "u" :> 221 @@ "v" :> 222
  @@ "w" :> 223 @@ "x" :> 224 @@ "y" :> 225 @@ "z" :> 226 )

(***************************************************************************)
(* Greek isopsephy module (greek/isopsephy/compute.ts)                     *)
(***************************************************************************)
\* GREEK_REGEX: any code unit in U+0370..U+03FF or U+1F00..U+1FFF
isGreek(t) ==
  \E i \in 1..Len(t) : InRange(t[i], 880, 1023) \/ InRange(t[i], 7936, 8191)

IsCombiningMark(c) == InRange(c, 768, 879)

IsGreekBlockChar(c) == InRange(c, 880, 1023)

\* a variant that decomposes but leaves the iota subscript a combining mark
convertIotaSubscriptToAdscript_none(t) == normalizeNFD(t)

\* text.normalize('NFD') with every U+0345 replaced by the letter iota
convertIotaSubscriptToAdscript(t) ==
  LET d == normalizeNFD(t)
  IN  [i \in 1..Len(d) |-> IF d[i] = "U+0345" THEN "ι" ELSE d[i]]

NotCombiningMark(c) == ~IsCombiningMark(c)

isopsephy_removeDiacritics(t) ==
  SelectSeq(convertIotaSubscriptToAdscript(t), NotCombiningMark)

isopsephy_extractGreekLetters(t) ==
  SelectSeq(isopsephy_removeDiacritics(t), IsGreekBlockChar)

IsArchaic(c) == c \in ARCHAIC_LETTERS

\* the Error with archaic.join(', '): every occurrence is listed
ArchaicError_noDedup(archaic) ==
  Throw([name |-> "Error", archaicList |-> archaic])

\* the Error computeOrdinal throws; archaicList is [...new Set(archaic)]
ArchaicError(archaic) ==
  Throw([name |-> "Error", archaicList |-> Dedup(archaic)])

isopsephy_computeStandard(t) ==
  LET clean == isopsephy_removeDiacritics(t)
  IN  SumSeq([i \in 1..Len(clean) |-> Lookup(STANDARD, clean[i])])

isopsephy_computeOrdinal(t, strict) ==
  LET letters == isopsephy_extractGreekLetters(t)
      archaic == SelectSeq(letters, IsArchaic)
  IN  IF strict /\ Len(archaic) > 0
      THEN ArchaicError(archaic)
      ELSE Num(SumSeq([i \in 1..Len(letters) |-> Lookup(ORDINAL, letters[i])]))

isopsephy_computeReduced(t) == digitalRoot(isopsephy_computeStandard(t))

\* computeAll: ordinal is computeOrdinal(text, false)
isopsephy_computeAll(t) ==
  LET ordinal == isopsephy_computeOrdinal(t, FALSE)
  IN  IF IsThrow(ordinal) THEN ordinal
      ELSE Values(isopsephy_computeStandard(t), ordinal.val,
                  isopsephy_computeReduced(t))

(***************************************************************************)
(* Legacy Greek module (gematria/greek.ts), the one the registry imports   *)
(***************************************************************************)
\* text.normalize('NFD') with every code unit in U+0300..U+036F removed
removeDiacritics(t) == SelectSeq(normalizeNFD(t), NotCombiningMark)

extractGreekLetters(t) == SelectSeq(removeDiacritics(t), IsGreekBlockChar)

computeGreekStandard(t) ==
  LET clean == removeDiacritics(t)
      normalized == [i \in 1..Len(clean) |->
                       IF clean[i] = "ς" THEN "σ" ELSE clean[i]]
  IN  SumSeq([i \in 1..Len(normalized) |-> Lookup(GREEK_VALUES, normalized[i])])

computeGreekOrdinal(t, strict) ==
  LET letters == extractGreekLetters(t)
      archaic == SelectSeq(letters, IsArchaic)
  IN  IF strict /\ Len(archaic) > 0
      THEN ArchaicError(archaic)
      ELSE Num(SumSeq([i \in 1..Len(letters) |->
                         Lookup(GREEK_ORDINAL, letters[i])]))

computeGreekReduced(t) == digitalRoot(computeGreekStandard(t))

\* computeGreek with ordinal computed as computeOrdinal(text, false)
computeGreek_lenient(t) ==
  Values(computeGreekStandard(t), computeGreekOrdinal(t, FALSE).val,
         computeGreekReduced(t))

\* computeGreek: ordinal is computeOrdinal(text), strict by default
computeGreek(t) ==
  LET ordinal == computeGreekOrdinal(t, TRUE)
  IN  IF IsThrow(ordinal) THEN ordinal
      ELSE Values(computeGreekStandard(t), ordinal.val, computeGreekReduced(t))

(***************************************************************************)
(* Hebrew (gematria/hebrew.ts over hebrew/gematria/index.ts)               *)
(***************************************************************************)
\* HEBREW_REGEX: any code unit in U+0590..U+05FF
isHebrew(t) == \E i \in 1..Len(t) : InRange(t[i], 1424, 1535)

IsHebrewLetter(c) == InRange(c, 1488, 1514)

\* the code units in U+05D0..U+05EA, joined
extractLetters(t) == SelectSeq(t, IsHebrewLetter)

\* computeWithTable(...).value without a musafi option
computeWithTable(t, table) ==
  LET letters == extractLetters(t)
  IN  SumSeq([i \in 1..Len(letters) |-> Lookup(table, letters[i])])

misparHechrachi(t) == computeWithTable(t, MISPAR_HECHRACHI)

misparSiduri(t) == computeWithTable(t, MISPAR_SIDURI)

misparKatan(t) == computeWithTable(t, MISPAR_KATAN)

computeHebrewStandard(t) == misparHechrachi(t)

computeHebrewOrdinal(t) == misparSiduri(t)

computeHebrewReduced(t) == misparKatan(t)

computeHebrew(t) ==
  Values(computeHebrewStandard(t), computeHebrewOrdinal(t), computeHebrewReduced(t))

(***************************************************************************)
(* What a plain object inherits                                            *)
(***************************************************************************)
\* the function-valued properties every plain object inherits from
\* Object.prototype, with the name of the function each holds
OBJECT_PROTOTYPE ==
  ( "constructor" :> "Object" @@ "toString" :> "toString"
  @@ "toLocaleString" :> "toLocaleString" @@ "valueOf" :> "valueOf"
  @@ "hasOwnProperty" :> "hasOwnProperty" @@ "isPrototypeOf" :> "isPrototypeOf"
  @@ "propertyIsEnumerable" :> "propertyIsEnumerable"
  @@ "__defineGetter__" :> "__defineGetter__"
  @@ "__defineSetter__" :> "__defineSetter__"
  @@ "__lookupGetter__" :> "__lookupGetter__"
  @@ "__lookupSetter__" :> "__lookupSetter__" )

\* every name a plain object inherits: those and the accessor __proto__
INHERITED_NAMES == DOMAIN OBJECT_PROTOTYPE \cup { "__proto__" }

\* object[name] for an inherited name the object does not define itself
InheritedValue(name) ==
  IF name = "__proto__" THEN [kind |-> "object", val |-> "Object.prototype"]
  ELSE [kind |-> "function", val |-> OBJECT_PROTOTYPE[name]]

(***************************************************************************)
(* Hebrew gematria module (hebrew/gematria/index.ts): the nine systems,    *)
(* the musafi modifier and the module-level letter regex                   *)
(***************************************************************************)
RECURSIVE splitWhitespace(_)
\* text.split(/\s+/): the pieces between maximal runs of whitespace, empty
\* pieces at either end included
splitWhitespace(t) ==
  IF t = << >> THEN << << >> >>
  ELSE LET init == SubSeq(t, 1, Len(t) - 1)
           c == t[Len(t)]
           pieces == splitWhitespace(init)
       IN  IF IsWhitespace(c)
           THEN IF init # << >> /\ IsWhitespace(init[Len(init)])
                THEN pieces
                ELSE Append(pieces, << >>)
           ELSE [pieces EXCEPT ![Len(pieces)] = Append(@, c)]

\* HEBREW_LETTER_REGEX.test(word) for the global regex with lastIndex `li`:
\* the search starts at index li; a match leaves lastIndex just after it, a
\* failure leaves 0
regexTest(li, word) ==
  LET hits == { i \in 1..Len(word) : i > li /\ IsHebrewLetter(word[i]) }
  IN  IF hits = {} THEN [found |-> FALSE, lastIndex |-> 0]
      ELSE [found |-> TRUE,
            lastIndex |-> CHOOSE i \in hits : \A j \in hits : i <= j]

RECURSIVE filterByRegexTest(_, _)
\* pieces.filter(word => HEBREW_LETTER_REGEX.test(word)).length, and the
\* lastIndex the regex is left with
filterByRegexTest(li, pieces) ==
  IF pieces = << >> THEN [count |-> 0, lastIndex |-> li]
  ELSE LET first == regexTest(li, Head(pieces))
           rest == filterByRegexTest(first.lastIndex, Tail(pieces))
       IN  [count |-> rest.count + (IF first.found THEN 1 ELSE 0),
            lastIndex |-> rest.lastIndex]

\* countWords(text) called with the regex's lastIndex at `li`
countWords(li, t) == filterByRegexTest(li, splitWhitespace(t))

\* options.musafi
OptionMusafi(options) ==
  IF "musafi" \in DOMAIN options THEN options.musafi ELSE UNDEFINED

\* computeWithTable(text, table, systemName, options).  extractLetters runs
\* first and its text.match(HEBREW_LETTER_REGEX) leaves lastIndex at 0, so
\* countWords starts from 0 whatever the regex held before the call
computeWithTableResult(t, table, systemName, options) ==
  LET letters == extractLetters(t)
      letterCount == Len(letters)
      wordCount == countWords(0, t).count
      sum == SumSeq([i \in 1..Len(letters) |-> Lookup(table, letters[i])])
      musafi == OptionMusafi(options)
      value == IF musafi = "words" THEN sum + wordCount
               ELSE IF musafi = "letters" THEN sum + letterCount
               ELSE sum
  IN  [kind |-> "result", value |-> value, system |-> systemName,
       letterCount |-> letterCount, wordCount |-> wordCount, musafi |-> musafi]

\* the regex's lastIndex once computeWithTable(text, ...) has returned
lastIndexAfterTable(t) == countWords(0, t).lastIndex

\* the keys of SYSTEMS, in order
HEBREW_SYSTEMS ==
  << "misparHechrachi", "misparGadol", "misparKatan", "misparKolel",
     "misparPerati", "misparMeshulash", "misparChitzon", "misparSiduri",
     "misparHakadmi" >>

\* SYSTEMS[system].values, which is also the table misparX passes
SystemTable(system) ==
  CASE system = "misparHechrachi" -> MISPAR_HECHRACHI
    [] system = "misparGadol" -> MISPAR_GADOL
    [] system = "misparKatan" -> MISPAR_KATAN
    [] system = "misparKolel" -> MISPAR_KOLEL
    [] system = "misparPerati" -> MISPAR_PERATI
    [] system = "misparMeshulash" -> MISPAR_MESHULASH
    [] system = "misparChitzon" -> MISPAR_CHITZON
    [] system = "misparSiduri" -> MISPAR_SIDURI
    [] system = "misparHakadmi" -> MISPAR_HAKADMI

\* misparX(text, options) for the system named X
mispar(system, t, options) ==
  computeWithTableResult(t, SystemTable(system), system, options).value

\* SYSTEMS[system]: the system's definition, what the plain object SYSTEMS
\* inherits under that name, or nothing
SystemDef(system) ==
  IF system \in Range(HEBREW_SYSTEMS)
  THEN [kind |-> "system", values |-> SystemTable(system)]
  ELSE IF system \in INHERITED_NAMES THEN InheritedValue(system)
  ELSE [kind |-> "undefined"]

\* systemDef.values: the table of a system; Object.values, a function that
\* holds no letter, when systemDef is the inherited constructor Object;
\* nothing for any other inherited value
SystemDefValues(systemDef) ==
  IF systemDef.kind = "system" THEN [kind |-> "table", table |-> systemDef.values]
  ELSE IF systemDef.kind = "function" /\ systemDef.val = "Object"
       THEN [kind |-> "table", table |-> << >>]
  ELSE [kind |-> "undefined"]

\* hebrew.gematria.compute(text, system, options): `if (!systemDef)` lets
\* every inherited name through; with no table, the first letter's
\* table[char] raises a TypeError and a text without letters gets its result
hebrew_compute(t, system, options) ==
  LET systemDef == SystemDef(system)
      values == SystemDefValues(systemDef)
      letters == extractLetters(t)
  IN  IF systemDef.kind = "undefined"
      THEN Throw([name |-> "Error",
                  message |-> "Unknown gematria system: " \o system])
      ELSE IF values.kind = "undefined" /\ letters # << >>
           THEN Throw([name |-> "TypeError",
                       message |-> "Cannot read properties of undefined (reading '"
                                     \o letters[1] \o "')"])
      ELSE computeWithTableResult(
             t, IF values.kind = "table" THEN values.table ELSE << >>,
             system, options)

\* hebrew.gematria.computeAll(text, options): the nine misparX calls
hebrew_computeAll(t, options) ==
  [system \in Range(HEBREW_SYSTEMS) |-> mispar(system, t, options)]

(***************************************************************************)
(* Legacy Hebrew module (gematria/hebrew.ts with its own tables)           *)
(***************************************************************************)
\* text.replace(/[^א-ת]/g, '') with a regex literal of its own
extractHebrewLetters(t) == SelectSeq(t, IsHebrewLetter)

legacy_computeStandard(t) ==
  LET letters == extractHebrewLetters(t)
  IN  SumSeq([i \in 1..Len(letters) |-> Lookup(HEBREW_STANDARD, letters[i])])

\* a variant that reduces the total, not each letter
legacy_computeReduced_ofTotal(t) == digitalRoot(legacy_computeStandard(t))

\* sum + digitalRoot(HEBREW_STANDARD[char] || 0) over the letters
legacy_computeReduced(t) ==
  LET letters == extractHebrewLetters(t)
  IN  SumSeq([i \in 1..Len(letters) |->
                digitalRoot(Lookup(HEBREW_STANDARD, letters[i]))])

(***************************************************************************)
(* Temurah ciphers (hebrew/temurah/index.ts)                               *)
(***************************************************************************)
HEBREW_ALPHABET ==
  << "א", "ב", "ג", "ד", "ה", "ו", "ז", "ח", "ט", "י", "כ",
     "ל", "מ", "נ", "ס", "ע", "פ", "צ", "ק", "ר", "ש", "ת" >>

FINAL_TO_STANDARD ==
  ( "ך" :> "כ" @@ "ם" :> "מ" @@ "ן" :> "נ" @@ "ף" :> "פ" @@ "ץ" :> "צ" )

STANDARD_TO_FINAL ==
  ( "כ" :> "ך" @@ "מ" :> "ם" @@ "נ" :> "ן" @@ "פ" :> "ף" @@ "צ" :> "ץ" )

\* a variant mapping that sends each letter to the next one of the alphabet
ATBASH_MAPPING_rotated ==
  [c \in Range(HEBREW_ALPHABET) |->
     HEBREW_ALPHABET[(IndexOf(HEBREW_ALPHABET, c) % Len(HEBREW_ALPHABET)) + 1]]

\* buildAtbashMapping(): mapping[ALPHABET[i]] = ALPHABET[len - 1 - i]
ATBASH_MAPPING ==
  [c \in Range(HEBREW_ALPHABET) |->
     HEBREW_ALPHABET[Len(HEBREW_ALPHABET) + 1 - IndexOf(HEBREW_ALPHABET, c)]]

\* buildAlbamMapping(): ALPHABET[i] and ALPHABET[i + 11] map to each other
ALBAM_MAPPING ==
  [c \in Range(HEBREW_ALPHABET) |->
     LET i == IndexOf(HEBREW_ALPHABET, c)
     IN  IF i <= 11 THEN HEBREW_ALPHABET[i + 11] ELSE HEBREW_ALPHABET[i - 11]]

\* const { preserveFinalForms = false } = options
OptionPreserveFinalForms(options) ==
  IF "preserveFinalForms" \in DOMAIN options THEN options.preserveFinalForms
  ELSE FALSE

\* a variant callback that leaves a final form as it is when asked to
\* preserve final forms
cipherChar_keepsFinals(mapping, char, preserveFinalForms) ==
  LET isFinal == char \in DOMAIN FINAL_TO_STANDARD
      standardLetter == IF isFinal THEN FINAL_TO_STANDARD[char] ELSE char
  IN  IF preserveFinalForms /\ isFinal THEN char
      ELSE IF standardLetter \in DOMAIN mapping THEN mapping[standardLetter]
      ELSE char

\* the body of the map callback that atbash and albam share
cipherChar(mapping, char, preserveFinalForms) ==
  LET isFinal == char \in DOMAIN FINAL_TO_STANDARD
      standardLetter == IF isFinal THEN FINAL_TO_STANDARD[char] ELSE char
  IN  IF standardLetter \in DOMAIN mapping
      THEN LET image == mapping[standardLetter]
           IN  IF preserveFinalForms /\ isFinal /\ image \in DOMAIN STANDARD_TO_FINAL
               THEN STANDARD_TO_FINAL[image]
               ELSE image
      ELSE char

atbash(t, options) ==
  [i \in 1..Len(t) |->
     cipherChar(ATBASH_MAPPING, t[i], OptionPreserveFinalForms(options))]

albam(t, options) ==
  [i \in 1..Len(t) |->
     cipherChar(ALBAM_MAPPING, t[i], OptionPreserveFinalForms(options))]

(***************************************************************************)
(* English (gematria/english.ts)                                           *)
(***************************************************************************)
IsAsciiLetter(c) == InRange(c, 65, 90) \/ InRange(c, 97, 122)

\* text.replace(/[^A-Za-z]/g, '')
extractEnglishLetters(t) == SelectSeq(t, IsAsciiLetter)

toLowerCase(t) ==
  [i \in 1..Len(t) |->
     IF t[i] \in Range(LATIN_UPPER)
     THEN LATIN_LOWER[IndexOf(LATIN_UPPER, t[i])] ELSE t[i]]

\* SIMPLE_ORDINAL[fromCharCode(97 + i)] = SIMPLE_ORDINAL[fromCharCode(65 + i)] = i + 1
SIMPLE_ORDINAL ==
  [c \in Range(LATIN_LOWER) \cup Range(LATIN_UPPER) |->
     IF c \in Range(LATIN_LOWER) THEN CodePoint(c) - 96 ELSE CodePoint(c) - 64]

\* a variant table that gives both cases the ordinal 1..26
WHITEHEAD_OBJECTIVE_caseless ==
  [c \in Range(LATIN_UPPER) \cup Range(LATIN_LOWER) |->
     IF c \in Range(LATIN_UPPER) THEN CodePoint(c) - 64 ELSE CodePoint(c) - 96]

\* WHITEHEAD_OBJECTIVE[fromCharCode(65 + i)] = i + 1, [fromCharCode(97 + i)] = i + 27
WHITEHEAD_OBJECTIVE ==
  [c \in Range(LATIN_UPPER) \cup Range(LATIN_LOWER) |->
     IF c \in Range(LATIN_UPPER) THEN CodePoint(c) - 64 ELSE CodePoint(c) - 70]

SumTable(table, letters) ==
  SumSeq([i \in 1..Len(letters) |-> Lookup(table, letters[i])])

computeEnglishOrdinal(t) ==
  SumTable(SIMPLE_ORDINAL, toLowerCase(extractEnglishLetters(t)))

computeAgrippa(t) == SumTable(AGRIPPA_LATIN, extractEnglishLetters(t))

computeWhiteheadGreek(t) == SumTable(WHITEHEAD_GREEK, extractEnglishLetters(t))

computeWhiteheadHebrew(t) ==
  SumTable(WHITEHEAD_HEBREW_ENGLISH, extractEnglishLetters(t))

computeWhiteheadObjective(t) ==
  SumTable(WHITEHEAD_OBJECTIVE, extractEnglishLetters(t))

computeWhiteheadSubjective(t) ==
  SumTable(WHITEHEAD_SUBJECTIVE, extractEnglishLetters(t))

computeEnglish(t) ==
  LET ordinal == computeEnglishOrdinal(t)
  IN  Values(ordinal, ordinal, digitalRoot(ordinal))

(***************************************************************************)
(* JavaScript values the registry and the containers handle                *)
(***************************************************************************)
\* the value `undefined` where an object is expected
undefined == [kind |-> "undefined"]

\* a string that passes `if (s)`
Truthy(s) == s # UNDEFINED /\ s # ""

\* a Map, in insertion order: a sequence of [key, value] entries
MapHas(m, k) == \E i \in 1..Len(m) : m[i].key = k

MapGet(m, k) ==
  IF MapHas(m, k) THEN m[CHOOSE i \in 1..Len(m) : m[i].key = k].value
  ELSE undefined

MapSet(m, k, v) ==
  IF MapHas(m, k)
  THEN [i \in 1..Len(m) |-> IF m[i].key = k THEN [key |-> k, value |-> v] ELSE m[i]]
  ELSE Append(m, [key |-> k, value |-> v])

MapValues(m) == [i \in 1..Len(m) |-> m[i].value]

MapKeys(m) == [i \in 1..Len(m) |-> m[i].key]

(***************************************************************************)
(* Method registry (gematria/index.ts)                                     *)
(***************************************************************************)
\* a GematriaMethod; `compute` names the function, `simpleName` may be absent
Method(slug, name, simpleName, language, compute) ==
  IF simpleName = UNDEFINED
  THEN [slug |-> slug, name |-> name, language |-> language, compute |-> compute]
  ELSE [slug |-> slug, name |-> name, simpleName |-> simpleName,
        language |-> language, compute |-> compute]

SimpleNameOf(method) ==
  IF "simpleName" \in DOMAIN method THEN method.simpleName ELSE UNDEFINED

\* `${language}:${simpleName}`
IndexKey(language, simpleName) == language \o ":" \o simpleName

\* a registration that keeps the entry a slug already has
methodsAfterRegister_keepFirst(ms, method) ==
  IF MapHas(ms, method.slug) THEN ms
  ELSE Append(ms, [key |-> method.slug, value |-> method])

\* registerMethod, on the two maps
methodsAfterRegister(ms, method) == MapSet(ms, method.slug, method)

indexAfterRegister(idx, method) ==
  IF Truthy(SimpleNameOf(method))
  THEN MapSet(idx, IndexKey(method.language, method.simpleName), method)
  ELSE idx

\* the registerMethod calls the module makes when it is loaded, in order
CORE_METHODS ==
  << Method("mispar_hechrachi", "Mispar Hechrachi", "standard", "hebrew", "computeHebrewStandard"),
     Method("mispar_siduri", "Mispar Siduri", "ordinal", "hebrew", "computeHebrewOrdinal"),
     Method("mispar_katan", "Mispar Katan", "reduced", "hebrew", "computeHebrewReduced"),
     Method("isopsephy", "Isopsephy", "standard", "greek", "computeGreekStandard"),
     Method("isopsephy_ordinal", "Greek Ordinal", "ordinal", "greek", "computeGreekOrdinal"),
     Method("isopsephy_reduced", "Greek Reduced", "reduced", "greek", "computeGreekReduced"),
     Method("english_ordinal", "English Ordinal", "ordinal", "english", "computeEnglishOrdinal"),
     Method("english_ordinal", "Simple English", "standard", "english", "computeEnglishOrdinal"),
     Method("agrippa_latin", "Agrippa Latin", UNDEFINED, "english", "computeEnglishAgrippa"),
     Method("whitehead_greek", "Whitehead Greek Cabala", UNDEFINED, "english", "computeWhiteheadGreek"),
     Method("whitehead_hebrew", "Whitehead Hebrew-English", UNDEFINED, "english", "computeWhiteheadHebrew"),
     Method("whitehead_objective", "Whitehead Objective Cabala", UNDEFINED, "english", "computeWhiteheadObjective"),
     Method("whitehead_subjective", "Whitehead Subjective Cabala", UNDEFINED, "english", "computeWhiteheadSubjective"),
     Method("english_reduced", "English Reduced", "reduced", "english", "digitalRoot(computeEnglishOrdinal)") >>

RECURSIVE MethodsAfterAll(_)
MethodsAfterAll(ms) ==
  IF ms = << >> THEN << >>
  ELSE methodsAfterRegister(MethodsAfterAll(SubSeq(ms, 1, Len(ms) - 1)), ms[Len(ms)])

RECURSIVE IndexAfterAll(_)
IndexAfterAll(ms) ==
  IF ms = << >> THEN << >>
  ELSE indexAfterRegister(IndexAfterAll(SubSeq(ms, 1, Len(ms) - 1)), ms[Len(ms)])

\* the registry once the module is loaded
RegistryLoaded ==
  /\ methods = MethodsAfterAll(CORE_METHODS)
  /\ simpleNameIndex = IndexAfterAll(CORE_METHODS)
  /\ calls = CORE_METHODS

\* a search that tries Greek before Hebrew
SEARCH_ORDER_greekFirst == << "greek", "hebrew", "english" >>

SEARCH_ORDER == << "hebrew", "greek", "english" >>

\* a lookup that tries the alias of an explicit language before the slug
getMethod_aliasFirst(slugOrName, language) ==
  LET bySlug == MapGet(methods, slugOrName)
      hits == SelectSeq(SEARCH_ORDER,
                LAMBDA lang : MapHas(simpleNameIndex, IndexKey(lang, slugOrName)))
  IN  IF /\ Truthy(language) /\ language # "auto"
         /\ MapHas(simpleNameIndex, IndexKey(language, slugOrName))
      THEN MapGet(simpleNameIndex, IndexKey(language, slugOrName))
      ELSE IF bySlug # undefined THEN bySlug
      ELSE IF hits # << >>
           THEN MapGet(simpleNameIndex, IndexKey(Head(hits), slugOrName))
      ELSE undefined

\* a lookup that goes on to the cross-language search when the explicit
\* language does not hold the alias
getMethod_fallThrough(slugOrName, language) ==
  LET bySlug == MapGet(methods, slugOrName)
      hits == SelectSeq(SEARCH_ORDER,
                LAMBDA lang : MapHas(simpleNameIndex, IndexKey(lang, slugOrName)))
  IN  IF bySlug # undefined THEN bySlug
      ELSE IF /\ Truthy(language) /\ language # "auto"
              /\ MapHas(simpleNameIndex, IndexKey(language, slugOrName))
           THEN MapGet(simpleNameIndex, IndexKey(language, slugOrName))
      ELSE IF hits # << >>
           THEN MapGet(simpleNameIndex, IndexKey(Head(hits), slugOrName))
      ELSE undefined

getMethod(slugOrName, language) ==
  LET bySlug == MapGet(methods, slugOrName)
      hits == SelectSeq(SEARCH_ORDER,
                LAMBDA lang : MapHas(simpleNameIndex, IndexKey(lang, slugOrName)))
  IN  IF bySlug # undefined THEN bySlug
      ELSE IF Truthy(language) /\ language # "auto"
           THEN MapGet(simpleNameIndex, IndexKey(language, slugOrName))
      ELSE IF hits # << >>
           THEN MapGet(simpleNameIndex, IndexKey(Head(hits), slugOrName))
      ELSE undefined

listMethods(language) ==
  IF ~Truthy(language) \/ language = "auto" THEN MapValues(methods)
  ELSE SelectSeq(MapValues(methods), LAMBDA m : m.language = language)

listSimpleNames(language) ==
  LET ms == SelectSeq(listMethods(language), LAMBDA m : "simpleName" \in DOMAIN m)
  IN  [i \in 1..Len(ms) |-> ms[i].simpleName]

\* method.compute(text): the function a registered method holds, called with
\* the text alone
ApplyCompute(compute, t) ==
  CASE compute = "computeHebrewStandard" -> Num(computeHebrewStandard(t))
    [] compute = "computeHebrewOrdinal" -> Num(computeHebrewOrdinal(t))
    [] compute = "computeHebrewReduced" -> Num(computeHebrewReduced(t))
    [] compute = "computeGreekStandard" -> Num(computeGreekStandard(t))
    [] compute = "computeGreekOrdinal" -> computeGreekOrdinal(t, TRUE)
    [] compute = "computeGreekReduced" -> Num(computeGreekReduced(t))
    [] compute = "computeEnglishOrdinal" -> Num(computeEnglishOrdinal(t))
    [] compute = "computeEnglishAgrippa" -> Num(computeAgrippa(t))
    [] compute = "computeWhiteheadGreek" -> Num(computeWhiteheadGreek(t))
    [] compute = "computeWhiteheadHebrew" -> Num(computeWhiteheadHebrew(t))
    [] compute = "computeWhiteheadObjective" -> Num(computeWhiteheadObjective(t))
    [] compute = "computeWhiteheadSubjective" -> Num(computeWhiteheadSubjective(t))
    [] compute = "digitalRoot(computeEnglishOrdinal)" ->
         Num(digitalRoot(computeEnglishOrdinal(t)))

(***************************************************************************)
(* Top-level compute and computeValue (gematria/index.ts)                  *)
(***************************************************************************)
\* a variant that looks for Greek before Hebrew
detectLanguage_greekFirst(t) ==
  IF isGreek(t) THEN "greek" ELSE IF isHebrew(t) THEN "hebrew" ELSE "english"

detectLanguage(t) ==
  IF isHebrew(t) THEN "hebrew" ELSE IF isGreek(t) THEN "greek" ELSE "english"

\* !text alone: whitespace-only text is taken as input
IsBlank_emptyOnly(t) == t = << >>

\* !text || !text.trim()
IsBlank(t) == \A i \in 1..Len(t) : IsWhitespace(t[i])

EmptyInputError ==
  Throw([name |-> "GematriaError", message |-> "Input text cannot be empty"])

UnsupportedLanguageError(lang) ==
  Throw([name |-> "GematriaError", message |-> "Unsupported language: " \o lang])

compute(t, language) ==
  LET given == IF language = UNDEFINED THEN "auto" ELSE language
      lang == IF given = "auto" THEN detectLanguage(t) ELSE given
  IN  IF IsBlank(t) THEN EmptyInputError
      ELSE CASE lang = "hebrew" -> computeHebrew(t)
             [] lang = "greek" -> computeGreek(t)
             [] lang = "english" -> computeEnglish(t)
             [] OTHER -> UnsupportedLanguageError(lang)

\* values[method] ?? 0 on the object literal { standard, ordinal, reduced }
PropertyOrZero(values, method) ==
  CASE method = "standard" -> Num(values.standard)
    [] method = "ordinal" -> Num(values.ordinal)
    [] method = "reduced" -> Num(values.reduced)
    [] method \in INHERITED_NAMES -> InheritedValue(method)
    [] OTHER -> Num(0)

\* if (methodDef) return methodDef.compute(text); otherwise
\* return values[method] ?? 0, `values` being what compute(text, lang)
\* returns or the error it raises
ValueBy(methodDef, values, t, name) ==
  IF methodDef # undefined THEN ApplyCompute(methodDef.compute, t)
  ELSE IF IsThrow(values) THEN values
  ELSE PropertyOrZero(values, name)

\* variant: the language is handed to the registry as given, 'auto' included
computeValue_noDetect(t, method, language) ==
  LET name == IF method = UNDEFINED THEN "standard" ELSE method
      given == IF language = UNDEFINED THEN "auto" ELSE language
  IN  ValueBy(getMethod(name, given), compute(t, given), t, name)

computeValue(t, method, language) ==
  LET name == IF method = UNDEFINED THEN "standard" ELSE method
      given == IF language = UNDEFINED THEN "auto" ELSE language
      lang == IF given = "auto" THEN detectLanguage(t) ELSE given
  IN  ValueBy(getMethod(name, lang), compute(t, lang), t, name)

\* The Hebrew functions of gematria/hebrew.ts go through computeWithTable, which
\* runs the module-level letter regex; the operators below give the lastIndex
\* a call leaves behind, `li` being the one it found.
IsHebrewCompute(fn) ==
  fn \in { "computeHebrewStandard", "computeHebrewOrdinal",
                "computeHebrewReduced" }

\* after compute(text, { language })
lastIndexAfterCompute(li, t, language) ==
  LET given == IF language = UNDEFINED THEN "auto" ELSE language
      lang == IF given = "auto" THEN detectLanguage(t) ELSE given
  IN  IF ~IsBlank(t) /\ lang = "hebrew" THEN lastIndexAfterTable(t) ELSE li

\* after computeValue(text, method, language)
lastIndexAfterComputeValue(li, t, method, language) ==
  LET name == IF method = UNDEFINED THEN "standard" ELSE method
      given == IF language = UNDEFINED THEN "auto" ELSE language
      lang == IF given = "auto" THEN detectLanguage(t) ELSE given
      methodDef == getMethod(name, lang)
  IN  IF methodDef # undefined
      THEN IF IsHebrewCompute(methodDef.compute) THEN lastIndexAfterTable(t)
           ELSE li
      ELSE lastIndexAfterCompute(li, t, lang)

(***************************************************************************)
(* Lazy containers (gematria/proxy.ts)                                     *)
(***************************************************************************)
\* the get trap of createGematriaProxy, for a string property name
\* try { return value } catch { return 0 }
ReturnOrZero(value) == IF IsThrow(value) THEN Num(0) ELSE value

createGematriaProxy_get(t, language, prop) ==
  ReturnOrZero(computeValue(t, prop, language))

\* the has trap of createGematriaProxy: `prop in proxy` for a string name
createGematriaProxy_has(prop) == TRUE

\* the ownKeys trap of createGematriaProxy
createGematriaProxy_ownKeys == << "standard", "ordinal", "reduced" >>

\* the getOwnPropertyDescriptor trap of createGematriaProxy, for a string
\* property name: computeValue is called outside any try/catch
\* { enumerable: true, configurable: true, value }, or the error the
\* evaluation of `value` raised
DescriptorOf(value) ==
  IF IsThrow(value) THEN value
  ELSE [kind |-> "descriptor", enumerable |-> TRUE, configurable |-> TRUE,
        value |-> value]

createGematriaProxy_getOwnPropertyDescriptor(t, language, prop) ==
  DescriptorOf(computeValue(t, prop, language))

\* the positions whose descriptor the trap failed to produce
ThrowingKeys(descriptors) ==
  { i \in 1..Len(descriptors) : IsThrow(descriptors[i]) }

\* the keys an enumeration gets to: all of them, or those up to the first
\* whose descriptor the trap failed to produce
KeysAsked(keys, descriptors) ==
  LET failing == ThrowingKeys(descriptors)
  IN  IF failing = {} THEN keys
      ELSE SubSeq(keys, 1, CHOOSE i \in failing : \A j \in failing : i <= j)

\* Object.keys(proxy), `descriptors` being what the getOwnPropertyDescriptor
\* trap gives for each key of ownKeys: the keys whose descriptor is
\* enumerable, or the error of the first descriptor that failed
ObjectKeys(keys, descriptors) ==
  IF ThrowingKeys(descriptors) # {}
  THEN descriptors[Len(KeysAsked(keys, descriptors))]
  ELSE [kind |-> "keys", keys |-> keys]

\* { ...proxy }, `values` being what the get trap gives for each key: after
\* the descriptor of a key, its value through the get trap
ObjectSpread(keys, descriptors, values) ==
  IF ThrowingKeys(descriptors) # {}
  THEN descriptors[Len(KeysAsked(keys, descriptors))]
  ELSE [kind |-> "object",
        entries |-> [i \in 1..Len(keys) |-> [key |-> keys[i], value |-> values[i]]]]

\* the outcome of Object.keys(proxy) or { ...proxy } and the keys it got to
Enumeration(language, spreading, keys, descriptors, values) ==
  [op |-> "word.enumerate", language |-> language, spreading |-> spreading,
   asked |-> KeysAsked(keys, descriptors),
   out |-> IF spreading THEN ObjectSpread(keys, descriptors, values)
           ELSE ObjectKeys(keys, descriptors)]

RECURSIVE lastIndexAfterEnumeration(_, _, _, _)
\* the lastIndex an enumeration leaves, `asked` being the keys it got to: one
\* computeValue per key for the descriptor; the one more for the value when
\* spreading leaves the same lastIndex
lastIndexAfterEnumeration(li, t, language, asked) ==
  IF asked = << >> THEN li
  ELSE lastIndexAfterEnumeration(
         lastIndexAfterComputeValue(li, t, Head(asked), language),
         t, language, Tail(asked))

\* String(v) for the values a sum can meet
JsToString(v) ==
  CASE v.kind = "number" -> ToString(v.val)
    [] v.kind = "string" -> v.val
    [] v.kind = "function" -> "function " \o v.val \o "() { [native code] }"
    [] v.kind = "object" -> "[object Object]"

\* a + b
JsAdd(a, b) ==
  IF a.kind = "number" /\ b.kind = "number" THEN Num(a.val + b.val)
  ELSE [kind |-> "string", val |-> JsToString(a) \o JsToString(b)]

\* const { variant = 'qere', includeColophons = false } = options
OptionVariant(options) ==
  IF "variant" \in DOMAIN options THEN options.variant ELSE "qere"

OptionIncludeColophons(options) ==
  IF "includeColophons" \in DOMAIN options THEN options.includeColophons ELSE FALSE

\* word.isColophon ?? word.metadata?.colophon: an explicit flag overrides the
\* metadata flag
FlaggedColophon_override(word) ==
  IF "isColophon" \in DOMAIN word THEN word.isColophon
  ELSE /\ "metadata" \in DOMAIN word
       /\ "colophon" \in DOMAIN word.metadata
       /\ word.metadata.colophon

\* word.isColophon || word.metadata?.colophon
FlaggedColophon(word) ==
  \/ ("isColophon" \in DOMAIN word /\ word.isColophon)
  \/ /\ "metadata" \in DOMAIN word
     /\ "colophon" \in DOMAIN word.metadata
     /\ word.metadata.colophon

\* the two `continue` tests of computeAggregate
SkipsColophon(word, options) ==
  ~OptionIncludeColophons(options) /\ FlaggedColophon(word)

\* word.variant !== variant: an untagged word is skipped as well
SkipsVariant_anyMismatch(word, options) ==
  (IF "variant" \in DOMAIN word THEN word.variant ELSE UNDEFINED)
    # OptionVariant(options)

SkipsVariant(word, options) ==
  /\ "variant" \in DOMAIN word
  /\ Truthy(word.variant)
  /\ \/ OptionVariant(options) = "qere" /\ word.variant = "ketiv"
     \/ OptionVariant(options) = "ketiv" /\ word.variant = "qere"

\* total += value, a failure of `value` ending the sum
AddOrThrow(total, value) == IF IsThrow(value) THEN value ELSE JsAdd(total, value)

\* try { total += value } catch { }
AddOrSkip(total, value) == IF IsThrow(value) THEN total ELSE JsAdd(total, value)

\* the loop body without its try/catch: a failure ends the sum
AggregateStep_noCatch(total, word, language, options, method) ==
  IF IsThrow(total) THEN total
  ELSE IF SkipsColophon(word, options) THEN total
  ELSE IF SkipsVariant(word, options) THEN total
  ELSE AddOrThrow(total, computeValue(word.text, method, language))

\* one pass of the loop body: the total after `word`
AggregateStep(total, word, language, options, method) ==
  IF SkipsColophon(word, options) THEN total
  ELSE IF SkipsVariant(word, options) THEN total
  ELSE AddOrSkip(total, computeValue(word.text, method, language))

RECURSIVE computeAggregate(_, _, _, _)
\* createVerseGematriaProxy's computeAggregate(method) over `ws`
computeAggregate(ws, language, options, method) ==
  IF ws = << >> THEN Num(0)
  ELSE AggregateStep(
         computeAggregate(SubSeq(ws, 1, Len(ws) - 1), language, options, method),
         ws[Len(ws)], language, options, method)

RECURSIVE lastIndexAfterAggregate(_, _, _, _, _)
\* the regex's lastIndex after computeAggregate(method) over `ws`
lastIndexAfterAggregate(li, ws, language, options, method) ==
  IF ws = << >> THEN li
  ELSE LET before == lastIndexAfterAggregate(
                       li, SubSeq(ws, 1, Len(ws) - 1), language, options, method)
           word == ws[Len(ws)]
       IN  IF SkipsColophon(word, options) \/ SkipsVariant(word, options)
           THEN before
           ELSE lastIndexAfterComputeValue(before, word.text, method, language)

\* the get trap of createVerseGematriaProxy, for a string property name
createVerseGematriaProxy_get(ws, language, options, prop) ==
  computeAggregate(ws, language, options, prop)

\* the has trap of createVerseGematriaProxy: `prop in proxy` for a string name
createVerseGematriaProxy_has(prop) == TRUE

\* the ownKeys trap of createVerseGematriaProxy
createVerseGematriaProxy_ownKeys == << "standard", "ordinal", "reduced" >>

\* the getOwnPropertyDescriptor trap of createVerseGematriaProxy, for a
\* string property name: computeAggregate(prop) is its value
createVerseGematriaProxy_getOwnPropertyDescriptor(ws, language, options, prop) ==
  DescriptorOf(computeAggregate(ws, language, options, prop))

\* the outcome of Object.keys(proxy) or { ...proxy } on a verse container,
\* `descriptors` and `values` being what the getOwnPropertyDescriptor trap
\* and the get trap give for each key
VerseEnumeration(language, options, spreading, keys, descriptors, values) ==
  [op |-> "verse.enumerate", language |-> language, options |-> options,
   spreading |-> spreading,
   out |-> IF spreading THEN ObjectSpread(keys, descriptors, values)
           ELSE ObjectKeys(keys, descriptors)]

RECURSIVE lastIndexAfterVerseEnumeration(_, _, _, _, _, _)
\* the lastIndex an enumeration of a verse container leaves: for each key
\* one computeAggregate for the descriptor and, when spreading, one more for
\* the value
lastIndexAfterVerseEnumeration(li, ws, language, options, spreading, keys) ==
  IF keys = << >> THEN li
  ELSE LET described == lastIndexAfterAggregate(li, ws, language, options, Head(keys))
           got == IF spreading
                  THEN lastIndexAfterAggregate(
                         described, ws, language, options, Head(keys))
                  ELSE described
       IN  lastIndexAfterVerseEnumeration(
             got, ws, language, options, spreading, Tail(keys))

\* createGematriaProxy(text, language): a handler whose traps close over the
\* text and the language, and new Proxy({}, handler)
createGematriaProxy(t, language) ==
  [kind |-> "word", text |-> t, language |-> language]

\* createVerseGematriaProxy(words, language, options) with the arguments
\* after language as `rest`: an omitted options is {}, variant and
\* includeColophons are taken from it with their defaults, and the handler's
\* traps close over them, the language and the words array itself
createVerseGematriaProxy(language, rest) ==
  LET options == IF rest = << >> THEN [f \in {} |-> TRUE] ELSE rest[1]
  IN  [kind |-> "verse", language |-> language,
       options |-> [variant |-> OptionVariant(options),
                    includeColophons |-> OptionIncludeColophons(options)]]

\* a variant get trap without the try/catch
createGematriaProxy_get_noCatch(t, language, prop) ==
  computeValue(t, prop, language)

\* the get trap of createVerseGematriaWithColophonsProxy(text, language),
\* which is createGematriaProxy(text, language)
createVerseGematriaWithColophonsProxy_get(t, language, prop) ==
  createGematriaProxy_get(t, language, prop)

RECURSIVE JoinTexts(_)
\* the texts of the words joined by single spaces
JoinTexts(ws) ==
  IF ws = << >> THEN << >>
  ELSE IF Len(ws) = 1 THEN ws[1].text
  ELSE JoinTexts(SubSeq(ws, 1, Len(ws) - 1)) \o << " " >> \o ws[Len(ws)].text

\* verse.gematriaWithColophons[prop] of the verse dataToVerse builds from
\* data.text: the container exists only if data.text is a non-empty string
gematriaWithColophons_get(dataText, language, prop) ==
  IF dataText = << >>
  THEN Throw([name |-> "TypeError",
              message |-> "Cannot read properties of undefined (reading '"
                            \o prop \o "')"])
  ELSE createVerseGematriaWithColophonsProxy_get(dataText, language, prop)

(***************************************************************************)
(* Bounds and the inputs drawn within them                                 *)
(***************************************************************************)
MaxTextLen == 2

MaxWords == 2

MaxRegistrations == 2

\* Greek letters, archaic letters in both cases, a precomposed accented
\* letter, a letter with iota subscript and the bare combining subscript, a
\* Latin letter, a space, a Hebrew letter and a Hebrew vowel point
TEXT_CHARS ==
  { "α", "β", "ι", "ϛ", "Ϟ", "ά", "ᾳ", "U+0345", "a", " ", "א", "U+05B0" }

Texts == SeqsUpTo(TEXT_CHARS, MaxTextLen)

LANGUAGES == { "auto", "hebrew", "greek", "english" }

\* aliases, a slug, an unregistered name and an inherited property name
PROP_NAMES == { "standard", "ordinal", "reduced", "isopsephy", "gadol", "toString" }

NoCall == [op |-> "none"]

\* no call is in progress: the previous one, if any, has returned to its caller
Idle == result = NoCall

\* the caller takes the outcome of the last call
Return ==
  /\ result # NoCall
  /\ result' = NoCall
  /\ UNCHANGED << sourceVars, lazyVars, methods, simpleNameIndex, calls, text, words, lastIndex, number >>

(***************************************************************************)
(* Text-level calls: the Greek functions, compute, and the word container  *)
(***************************************************************************)
InitText ==
  /\ RegistryLoaded
  /\ text \in Texts
  /\ words = << >>
  /\ lastIndex = 0
  /\ number = 0
  /\ result = NoCall
  /\ NoSources
  /\ NoContainers

\* isopsephy.computeOrdinal(text), (text, true) and (text, false)
IsopsephyComputeOrdinal ==
  /\ Idle
  /\ \E args \in { << >>, << TRUE >>, << FALSE >> } :
       result' = [op |-> "isopsephy.computeOrdinal", args |-> args,
                  out |-> isopsephy_computeOrdinal(
                            text, IF args = << >> THEN TRUE ELSE args[1])]
  /\ UNCHANGED << sourceVars, lazyVars, methods, simpleNameIndex, calls, text, words, lastIndex, number >>

IsopsephyComputeAll ==
  /\ Idle
  /\ result' = [op |-> "isopsephy.computeAll", out |-> isopsephy_computeAll(text)]
  /\ UNCHANGED << sourceVars, lazyVars, methods, simpleNameIndex, calls, text, words, lastIndex, number >>

ComputeGreek ==
  /\ Idle
  /\ result' = [op |-> "computeGreek", out |-> computeGreek(text)]
  /\ UNCHANGED << sourceVars, lazyVars, methods, simpleNameIndex, calls, text, words, lastIndex, number >>

\* compute(text) and compute(text, { language })
Compute ==
  /\ Idle
  /\ \E language \in LANGUAGES \cup { UNDEFINED } :
       /\ result' = [op |-> "compute", language |-> language,
                     out |-> compute(text, language)]
       /\ lastIndex' = lastIndexAfterCompute(lastIndex, text, language)
  /\ UNCHANGED << sourceVars, lazyVars, methods, simpleNameIndex, calls, text, words, number >>

\* createGematriaProxy(text, language)[prop]
ReadWord ==
  /\ Idle
  /\ \E language \in LANGUAGES, prop \in PROP_NAMES :
       /\ result' = [op |-> "word.get", language |-> language, prop |-> prop,
                     out |-> createGematriaProxy_get(text, language, prop)]
       /\ lastIndex' = lastIndexAfterComputeValue(lastIndex, text, prop, language)
  /\ UNCHANGED << sourceVars, lazyVars, methods, simpleNameIndex, calls, text, words, number >>

IsopsephyComputeStandard ==
  /\ Idle
  /\ result' = [op |-> "isopsephy.computeStandard",
                out |-> isopsephy_computeStandard(text)]
  /\ UNCHANGED << sourceVars, lazyVars, methods, simpleNameIndex, calls, text, words, lastIndex, number >>

DetectLanguage ==
  /\ Idle
  /\ result' = [op |-> "detectLanguage", out |-> detectLanguage(text)]
  /\ UNCHANGED << sourceVars, lazyVars, methods, simpleNameIndex, calls, text, words, lastIndex, number >>

\* the compute functions the registry holds, each a single-system function
SINGLE_FUNCTIONS == { CORE_METHODS[i].compute : i \in 1..Len(CORE_METHODS) }

ComputeHebrew ==
  /\ Idle
  /\ result' = [op |-> "computeHebrew", out |-> computeHebrew(text)]
  /\ lastIndex' = lastIndexAfterTable(text)
  /\ UNCHANGED << sourceVars, lazyVars, methods, simpleNameIndex, calls, text, words, number >>

ComputeEnglish ==
  /\ Idle
  /\ result' = [op |-> "computeEnglish", out |-> computeEnglish(text)]
  /\ UNCHANGED << sourceVars, lazyVars, methods, simpleNameIndex, calls, text, words, lastIndex, number >>

\* one single-system function called on the text
ComputeSingle ==
  /\ Idle
  /\ \E fn \in SINGLE_FUNCTIONS :
       /\ result' = [op |-> "single", fn |-> fn, out |-> ApplyCompute(fn, text)]
       /\ lastIndex' = IF IsHebrewCompute(fn) THEN lastIndexAfterTable(text)
                       ELSE lastIndex
  /\ UNCHANGED << sourceVars, lazyVars, methods, simpleNameIndex, calls, text, words, number >>

\* the shared aliases, a slug, and the omitted method name
COMPUTE_VALUE_NAMES == { UNDEFINED, "standard", "ordinal", "reduced", "isopsephy" }

\* computeValue(text), computeValue(text, method) and
\* computeValue(text, method, language)
ComputeValue ==
  /\ Idle
  /\ \E method \in COMPUTE_VALUE_NAMES, language \in LANGUAGES \cup { UNDEFINED } :
       /\ result' = [op |-> "computeValue", method |-> method,
                     language |-> language,
                     out |-> computeValue(text, method, language)]
       /\ lastIndex' = lastIndexAfterComputeValue(lastIndex, text, method, language)
  /\ UNCHANGED << sourceVars, lazyVars, methods, simpleNameIndex, calls, text, words, number >>

\* prop in createGematriaProxy(text, language)
HasWord ==
  /\ Idle
  /\ \E language \in LANGUAGES, prop \in PROP_NAMES :
       result' = [op |-> "word.has", language |-> language, prop |-> prop,
                  out |-> [kind |-> "boolean", val |-> createGematriaProxy_has(prop)]]
  /\ UNCHANGED << sourceVars, lazyVars, methods, simpleNameIndex, calls, text, words, lastIndex, number >>

\* Object.keys(createGematriaProxy(text, language)) and
\* { ...createGematriaProxy(text, language) }
EnumerateWord ==
  /\ Idle
  /\ \E language \in LANGUAGES, spreading \in BOOLEAN :
       /\ result' = Enumeration(
                      language, spreading, createGematriaProxy_ownKeys,
                      [i \in 1..Len(createGematriaProxy_ownKeys) |->
                         createGematriaProxy_getOwnPropertyDescriptor(
                           text, language, createGematriaProxy_ownKeys[i])],
                      [i \in 1..Len(createGematriaProxy_ownKeys) |->
                         createGematriaProxy_get(
                           text, language, createGematriaProxy_ownKeys[i])])
       /\ lastIndex' = lastIndexAfterEnumeration(lastIndex, text, language,
                                                 result'.asked)
  /\ UNCHANGED << sourceVars, lazyVars, methods, simpleNameIndex, calls, text, words, number >>

NextText ==
  \/ IsopsephyComputeOrdinal
  \/ IsopsephyComputeAll
  \/ ComputeGreek
  \/ Compute
  \/ ReadWord
  \/ ComputeHebrew
  \/ ComputeEnglish
  \/ ComputeSingle
  \/ IsopsephyComputeStandard
  \/ DetectLanguage
  \/ ComputeValue
  \/ HasWord
  \/ EnumerateWord
  \/ Return

SpecText == InitText /\ [][NextText]_vars

(***************************************************************************)
(* English calls: the single-system functions on mixed-case text           *)
(***************************************************************************)
MaxEnglishLen == 3

\* two letters in both cases, one of them the last of the alphabet, a space
\* and a digit
ENGLISH_TEXT_CHARS == { "a", "A", "z", "Z", " ", "1" }

InitEnglish ==
  /\ RegistryLoaded
  /\ text \in SeqsUpTo(ENGLISH_TEXT_CHARS, MaxEnglishLen)
  /\ words = << >>
  /\ lastIndex = 0
  /\ number = 0
  /\ result = NoCall
  /\ NoSources
  /\ NoContainers

NextEnglish ==
  \/ ComputeEnglish
  \/ ComputeSingle
  \/ Return

SpecEnglish == InitEnglish /\ [][NextEnglish]_vars

(***************************************************************************)
(* Verse-level container                                                   *)
(***************************************************************************)
\* a word that computes under every method, and one holding a stigma
WORD_TEXTS == { << "β", "α" >>, << "α", "ϛ" >> }

NoFlags == [f \in {} |-> TRUE]

\* the colophon and variant fields a word may carry besides its text
WORD_FLAGS ==
  { NoFlags,
    [isColophon |-> TRUE],
    [metadata |-> [colophon |-> TRUE]],
    [isColophon |-> FALSE, metadata |-> [colophon |-> TRUE]],
    [isColophon |-> TRUE, metadata |-> [colophon |-> FALSE]],
    [variant |-> "ketiv"],
    [variant |-> "qere"] }

Words == { [text |-> t] @@ flags : t \in WORD_TEXTS, flags \in WORD_FLAGS }

VERSE_OPTIONS ==
  { NoFlags,
    [variant |-> "ketiv"],
    [includeColophons |-> TRUE],
    [variant |-> "qere", includeColophons |-> FALSE],
    [variant |-> "ketiv", includeColophons |-> TRUE] }

VERSE_LANGUAGES == { "auto", "english" }

VERSE_PROPS == { "standard", "ordinal", "gadol", "toString" }

Init ==
  /\ RegistryLoaded
  /\ text = << >>
  /\ words \in SeqsUpTo(Words, MaxWords)
  /\ lastIndex = 0
  /\ number = 0
  /\ result = NoCall
  /\ NoSources
  /\ NoContainers

\* createVerseGematriaProxy(words, language, options)[prop]
ReadVerse ==
  /\ Idle
  /\ \E language \in VERSE_LANGUAGES, options \in VERSE_OPTIONS, prop \in VERSE_PROPS :
       /\ result' = [op |-> "verse.get", language |-> language,
                     options |-> options, prop |-> prop,
                     out |-> createVerseGematriaProxy_get(
                               words, language, options, prop)]
       /\ lastIndex' = lastIndexAfterAggregate(
                          lastIndex, words, language, options, prop)
  /\ UNCHANGED << sourceVars, lazyVars, methods, simpleNameIndex, calls, text, words, number >>

\* prop in createVerseGematriaProxy(words, language, options)
HasVerse ==
  /\ Idle
  /\ \E language \in VERSE_LANGUAGES, options \in VERSE_OPTIONS, prop \in VERSE_PROPS :
       result' = [op |-> "verse.has", language |-> language, options |-> options,
                  prop |-> prop,
                  out |-> [kind |-> "boolean",
                           val |-> createVerseGematriaProxy_has(prop)]]
  /\ UNCHANGED << sourceVars, lazyVars, methods, simpleNameIndex, calls, text, words,
                  lastIndex, number >>

\* Object.keys(createVerseGematriaProxy(words, language, options)) and
\* { ...createVerseGematriaProxy(words, language, options) }
EnumerateVerse ==
  /\ Idle
  /\ \E language \in VERSE_LANGUAGES, options \in VERSE_OPTIONS, spreading \in BOOLEAN :
       /\ result' = VerseEnumeration(
                      language, options, spreading, createVerseGematriaProxy_ownKeys,
                      [i \in 1..Len(createVerseGematriaProxy_ownKeys) |->
                         createVerseGematriaProxy_getOwnPropertyDescriptor(
                           words, language, options,
                           createVerseGematriaProxy_ownKeys[i])],
                      [i \in 1..Len(createVerseGematriaProxy_ownKeys) |->
                         createVerseGematriaProxy_get(
                           words, language, options,
                           createVerseGematriaProxy_ownKeys[i])])
       /\ lastIndex' = lastIndexAfterVerseEnumeration(
                          lastIndex, words, language, options, spreading,
                          createVerseGematriaProxy_ownKeys)
  /\ UNCHANGED << sourceVars, lazyVars, methods, simpleNameIndex, calls, text, words,
                  number >>

WITH_COLOPHONS_PROPS == { "standard", "ordinal", "reduced" }

\* verse.gematriaWithColophons[prop] for a verse whose raw text is its
\* words' texts joined by spaces
ReadVerseWithColophons ==
  /\ Idle
  /\ \E language \in VERSE_LANGUAGES, prop \in WITH_COLOPHONS_PROPS :
       /\ result' = [op |-> "verse.withColophons", language |-> language,
                     prop |-> prop,
                     out |-> gematriaWithColophons_get(
                               JoinTexts(words), language, prop)]
       /\ lastIndex' = IF words = << >> THEN lastIndex
                       ELSE lastIndexAfterComputeValue(
                              lastIndex, JoinTexts(words), prop, language)
  /\ UNCHANGED << sourceVars, lazyVars, methods, simpleNameIndex, calls, text, words, number >>

Next ==
  \/ ReadVerse
  \/ HasVerse
  \/ EnumerateVerse
  \/ ReadVerseWithColophons
  \/ Return

Spec == Init /\ [][Next]_vars

(***************************************************************************)
(* Verse construction from raw data (index.ts dataToVerse)                 *)
(***************************************************************************)
\* the value null in a field of a raw word
NULL == "(null)"

\* an entry of data.words that is null instead of an object
NULL_ENTRY == [entry |-> NULL]

\* w && typeof w === 'object'
IsObject(w) == "entry" \notin DOMAIN w

\* a field that is present and passes `if (w.field)`
FieldTruthy(w, field) ==
  field \in DOMAIN w /\ w[field] # NULL /\ Truthy(w[field])

isTextualCriticalNote(w) ==
  LET hasExplicitNullLemma == "lemma" \in DOMAIN w /\ w.lemma = NULL
      hasExplicitNullMorph == "morph" \in DOMAIN w /\ w.morph = NULL
  IN  IF ~hasExplicitNullLemma \/ ~hasExplicitNullMorph THEN FALSE
      ELSE IF isHebrew(w.text) \/ isGreek(w.text) THEN FALSE
      ELSE TRUE

\* the morphology object: 'scheme:code' is split at the first colon
morphologyOf(code) ==
  CASE code = "robinson:N-NSM" -> [code |-> "N-NSM", description |-> "robinson"]
    [] OTHER -> [code |-> code]

\* the Word pushed for a raw word: position, text, and the lexicon entry and
\* morphology its lemma and morph give
wordOf(w) ==
  [position |-> w.position, text |-> w.text]
    @@ (IF FieldTruthy(w, "lemma")
        THEN [lexiconEntry |-> [lemma |-> w.lemma]] ELSE NoFlags)
    @@ (IF FieldTruthy(w, "morph")
        THEN [morphology |-> morphologyOf(w.morph)] ELSE NoFlags)

RECURSIVE dataToVerse_words(_)
\* the loop of dataToVerse over data.words: entries that are not objects and
\* textual critical notes are skipped, the others pushed in order
dataToVerse_words(raw) ==
  IF raw = << >> THEN << >>
  ELSE LET init == dataToVerse_words(SubSeq(raw, 1, Len(raw) - 1))
           w == raw[Len(raw)]
       IN  IF ~IsObject(w) THEN init
           ELSE IF isTextualCriticalNote(w) THEN init
           ELSE Append(init, wordOf(w))

MaxDataWords == 2

\* a Latin note, a Hebrew vowel point on its own, a Hebrew letter and a
\* Greek letter
DATA_TEXTS == { << "a" >>, << "U+05B0" >>, << "א" >>, << "ε" >> }

\* lemma and morph each missing, null or set
DATA_FIELDS ==
  { lemma @@ morph :
      lemma \in { NoFlags, [lemma |-> NULL], [lemma |-> "H1254"] },
      morph \in { NoFlags, [morph |-> NULL], [morph |-> "robinson:N-NSM"] } }

\* data.words: raw words numbered by position, and null entries
DataWords ==
  SeqsUpTo([text : DATA_TEXTS, fields : DATA_FIELDS] \cup { NULL_ENTRY },
           MaxDataWords)

RawWord(position, choice) ==
  IF choice = NULL_ENTRY THEN NULL_ENTRY
  ELSE [position |-> position, text |-> choice.text] @@ choice.fields

InitData ==
  /\ RegistryLoaded
  /\ text = << >>
  /\ \E choices \in DataWords :
       words = [i \in 1..Len(choices) |-> RawWord(i, choices[i])]
  /\ lastIndex = 0
  /\ number = 0
  /\ result = NoCall
  /\ NoSources
  /\ NoContainers

\* dataToVerse(data, ...).words for data.words = words
DataToVerse ==
  /\ Idle
  /\ result' = [op |-> "dataToVerse", out |-> dataToVerse_words(words)]
  /\ UNCHANGED << sourceVars, lazyVars, methods, simpleNameIndex, calls, text, words, lastIndex, number >>

NextData ==
  \/ DataToVerse
  \/ Return

SpecData == InitData /\ [][NextData]_vars

(***************************************************************************)
(* Registry calls                                                          *)
(***************************************************************************)
\* methods a caller may register: one re-using a core slug with a new alias,
\* one whose slug is the shared alias "standard", two sharing a slug, of which
\* one takes over a core alias, and one with an empty alias
NEW_METHODS ==
  { Method("mispar_hechrachi", "Replaced", "gadol", "hebrew", "computeHebrewOrdinal"),
    Method("standard", "Slug Standard", UNDEFINED, "english", "computeEnglishOrdinal"),
    Method("custom", "Custom", "standard", "greek", "computeGreekReduced"),
    Method("custom", "Custom Again", "kolel", "english", "computeEnglishAgrippa"),
    Method("custom_empty", "Empty Alias", "", "hebrew", "computeHebrewReduced") }

LOOKUP_NAMES ==
  { "mispar_hechrachi", "english_ordinal", "custom", "standard", "ordinal",
    "kolel", "gadol", "nope", "" }

LOOKUP_LANGUAGES == LANGUAGES \cup { UNDEFINED }

InitRegistry ==
  /\ RegistryLoaded
  /\ text = << >>
  /\ words = << >>
  /\ lastIndex = 0
  /\ number = 0
  /\ result = NoCall
  /\ NoSources
  /\ NoContainers

RegisterMethod(method) ==
  /\ Idle
  /\ Len(calls) < Len(CORE_METHODS) + MaxRegistrations
  /\ methods' = methodsAfterRegister(methods, method)
  /\ simpleNameIndex' = indexAfterRegister(simpleNameIndex, method)
  /\ calls' = Append(calls, method)
  /\ result' = [op |-> "registerMethod", method |-> method]
  /\ UNCHANGED << sourceVars, lazyVars, text, words, lastIndex, number >>

GetMethod ==
  /\ Idle
  /\ \E name \in LOOKUP_NAMES, language \in LOOKUP_LANGUAGES :
       result' = [op |-> "getMethod", name |-> name, language |-> language,
                  out |-> getMethod(name, language)]
  /\ UNCHANGED << sourceVars, lazyVars, methods, simpleNameIndex, calls, text, words, lastIndex, number >>

ListMethods ==
  /\ Idle
  /\ \E language \in LOOKUP_LANGUAGES :
       result' = [op |-> "listMethods", language |-> language,
                  out |-> listMethods(language)]
  /\ UNCHANGED << sourceVars, lazyVars, methods, simpleNameIndex, calls, text, words, lastIndex, number >>

ListSimpleNames ==
  /\ Idle
  /\ \E language \in LANGUAGES :
       result' = [op |-> "listSimpleNames", language |-> language,
                  out |-> listSimpleNames(language)]
  /\ UNCHANGED << sourceVars, lazyVars, methods, simpleNameIndex, calls, text, words, lastIndex, number >>

NextRegistry ==
  \/ \E method \in NEW_METHODS : RegisterMethod(method)
  \/ GetMethod
  \/ ListMethods
  \/ ListSimpleNames
  \/ Return

SpecRegistry == InitRegistry /\ [][NextRegistry]_vars

(***************************************************************************)
(* Containers over time: construction, reads, pushes to the words array    *)
(* and registrations                                                       *)
(***************************************************************************)
\* words a caller may push: a Greek word, a Greek word holding a stigma that
\* is tagged as the ketiv reading, and a Hebrew word flagged as a colophon
LAZY_WORDS ==
  { [text |-> << "ι", "α" >>],
    [text |-> << "α", "ϛ" >>, variant |-> "ketiv"],
    [text |-> << "כ", "א" >>, isColophon |-> TRUE] }

\* the texts a word-level container is built over: Greek with a stigma, and
\* Hebrew
LAZY_TEXTS == { << "α", "ϛ" >>, << "כ", "א" >> }

\* pushes and registrations a caller makes at most, taken together
MaxChanges == 2

\* the pushes and registrations so far
Changes == Len(words) + Len(calls) - Len(CORE_METHODS)

\* what follows `language` in a call of createVerseGematriaProxy: nothing,
\* or an options object
LAZY_OPTIONS ==
  { << >>, << [includeColophons |-> TRUE] >>, << [variant |-> "ketiv"] >> }

LAZY_PROPS == { "standard", "ordinal" }

\* methods a caller may register: one whose slug is the shared alias
\* "standard", and one that takes over the Greek alias "standard"
LAZY_METHODS ==
  { Method("standard", "Slug Standard", UNDEFINED, "english", "computeEnglishOrdinal"),
    Method("custom", "Custom", "standard", "greek", "computeGreekReduced") }

InitLazy ==
  /\ RegistryLoaded
  /\ text = << >>
  /\ words = << >>
  /\ lastIndex = 0
  /\ number = 0
  /\ result = NoCall
  /\ NoSources
  /\ NoContainers

\* createGematriaProxy(text, 'auto'), or createVerseGematriaProxy(words,
\* 'auto', options) as dataToVerse and verse.getGematria(options) call it;
\* the caller keeps the container it gets, one of each kind
CreateContainer ==
  /\ Idle
  /\ \E kind \in { "word", "verse" }, t \in LAZY_TEXTS \cup { << >> }, rest \in LAZY_OPTIONS :
       LET container == IF kind = "word" THEN createGematriaProxy(t, "auto")
                        ELSE createVerseGematriaProxy("auto", rest)
       IN  /\ containers[kind] = NoContainer
           /\ kind = "word" => (rest = << >> /\ t \in LAZY_TEXTS)
           /\ kind = "verse" => t = << >>
           /\ result' = [op |-> "create", kind |-> kind, text |-> t, rest |-> rest,
                         regexBefore |-> lastIndex, callsBefore |-> calls,
                         out |-> container]
           /\ containers' = [containers EXCEPT ![kind] = container]
  /\ UNCHANGED << sourceVars, methods, simpleNameIndex, calls, text, words, lastIndex,
                  number, lastRead >>

\* verse.words.push(word): the array the verse container closes over
PushWord ==
  /\ Idle
  /\ Len(words) < MaxWords
  /\ Changes < MaxChanges
  /\ \E word \in LAZY_WORDS :
       /\ words' = Append(words, word)
       /\ result' = [op |-> "push", word |-> word]
  /\ UNCHANGED << sourceVars, lazyVars, methods, simpleNameIndex, calls, text, lastIndex,
                  number >>

\* a get trap that keeps what it returned and returns it again
ContainerGet_memoized(kind, prop) ==
  IF /\ lastRead # NoRead
     /\ lastRead.kind = kind
     /\ lastRead.prop = prop
     /\ lastRead.container = containers[kind]
  THEN lastRead.out
  ELSE IF kind = "word"
       THEN createGematriaProxy_get(containers[kind].text, containers[kind].language, prop)
       ELSE createVerseGematriaProxy_get(
              words, containers[kind].language, containers[kind].options, prop)

\* container[prop]: the get trap of the container's handler, which works on
\* what the handler closed over; for the verse container that is the words
\* array as it is now
ContainerGet(kind, prop) ==
  IF kind = "word"
  THEN createGematriaProxy_get(containers[kind].text, containers[kind].language, prop)
  ELSE createVerseGematriaProxy_get(
         words, containers[kind].language, containers[kind].options, prop)

\* the regex's lastIndex after container[prop]
lastIndexAfterContainerGet(li, kind, prop) ==
  IF kind = "word"
  THEN lastIndexAfterComputeValue(
         li, containers[kind].text, prop, containers[kind].language)
  ELSE lastIndexAfterAggregate(
         li, words, containers[kind].language, containers[kind].options, prop)

\* container[prop] on a container the caller holds
ReadContainer ==
  /\ Idle
  /\ \E kind \in { "word", "verse" }, prop \in LAZY_PROPS :
       /\ containers[kind] # NoContainer
       /\ lastRead' = [op |-> "read", kind |-> kind, prop |-> prop,
                       container |-> containers[kind],
                       wordsThen |-> words, callsThen |-> calls,
                       out |-> ContainerGet(kind, prop)]
       /\ result' = [op |-> "read", kind |-> kind, prop |-> prop,
                     regexBefore |-> lastIndex,
                     before |-> lastRead, out |-> lastRead'.out]
       /\ lastIndex' = lastIndexAfterContainerGet(lastIndex, kind, prop)
  /\ UNCHANGED << sourceVars, methods, simpleNameIndex, calls, text, words, number,
                  containers >>

\* Object.keys(container) and { ...container } on a word container the
\* caller holds
EnumerateWordContainer ==
  /\ Idle
  /\ containers["word"] # NoContainer
  /\ \E spreading \in BOOLEAN :
       result' = Enumeration(
                   containers["word"].language, spreading,
                   createGematriaProxy_ownKeys,
                   [i \in 1..Len(createGematriaProxy_ownKeys) |->
                      createGematriaProxy_getOwnPropertyDescriptor(
                        containers["word"].text, containers["word"].language,
                        createGematriaProxy_ownKeys[i])],
                   [i \in 1..Len(createGematriaProxy_ownKeys) |->
                      createGematriaProxy_get(
                        containers["word"].text, containers["word"].language,
                        createGematriaProxy_ownKeys[i])])
  /\ lastIndex' = lastIndexAfterEnumeration(
                     lastIndex, containers["word"].text,
                     containers["word"].language, result'.asked)
  /\ UNCHANGED << sourceVars, lazyVars, methods, simpleNameIndex, calls, text, words,
                  number >>

\* Object.keys(container) and { ...container } on a verse container the
\* caller holds
EnumerateVerseContainer ==
  /\ Idle
  /\ containers["verse"] # NoContainer
  /\ \E spreading \in BOOLEAN :
       /\ result' = VerseEnumeration(
                      containers["verse"].language, containers["verse"].options,
                      spreading, createVerseGematriaProxy_ownKeys,
                      [i \in 1..Len(createVerseGematriaProxy_ownKeys) |->
                         createVerseGematriaProxy_getOwnPropertyDescriptor(
                           words, containers["verse"].language,
                           containers["verse"].options,
                           createVerseGematriaProxy_ownKeys[i])],
                      [i \in 1..Len(createVerseGematriaProxy_ownKeys) |->
                         createVerseGematriaProxy_get(
                           words, containers["verse"].language,
                           containers["verse"].options,
                           createVerseGematriaProxy_ownKeys[i])])
       /\ lastIndex' = lastIndexAfterVerseEnumeration(
                          lastIndex, words, containers["verse"].language,
                          containers["verse"].options, spreading,
                          createVerseGematriaProxy_ownKeys)
  /\ UNCHANGED << sourceVars, lazyVars, methods, simpleNameIndex, calls, text, words,
                  number >>

NextLazy ==
  \/ CreateContainer
  \/ EnumerateWordContainer
  \/ EnumerateVerseContainer
  \/ PushWord
  \/ \E method \in LAZY_METHODS : Changes < MaxChanges /\ RegisterMethod(method)
  \/ ReadContainer
  \/ Return

SpecLazy == InitLazy /\ [][NextLazy]_vars


(***************************************************************************)
(* Numeric calls                                                           *)
(***************************************************************************)
MaxNumber == 1000

MaxExponent == 21

\* the integers up to MaxNumber and the powers of ten up to 10^MaxExponent
Numbers ==
  { [coefficient |-> n, exponent |-> 0] : n \in 0..MaxNumber }
    \cup { [coefficient |-> 1, exponent |-> e] : e \in 1..MaxExponent }

InitNumber ==
  /\ RegistryLoaded
  /\ text = << >>
  /\ words = << >>
  /\ lastIndex = 0
  /\ number \in Numbers
  /\ result = NoCall
  /\ NoSources
  /\ NoContainers

\* digitalRoot(value), also exported as computeDigitalRoot(value)
DigitalRoot ==
  /\ Idle
  /\ result' = [op |-> "digitalRoot", out |-> digitalRootOfNumber(number)]
  /\ UNCHANGED << sourceVars, lazyVars, methods, simpleNameIndex, calls, text, words, lastIndex, number >>

NextNumber ==
  \/ DigitalRoot
  \/ Return

SpecNumber == InitNumber /\ [][NextNumber]_vars

(***************************************************************************)
(* Hebrew module calls: the nine systems, the letter and word counts, the  *)
(* legacy reduced value and the temurah ciphers                            *)
(***************************************************************************)
MaxHebrewLen == 3

\* a consonant, a consonant with a final form, that final form, a space and
\* a Latin letter
HEBREW_TEXT_CHARS == { "ט", "כ", "ך", " ", "a" }

\* every short text over those characters, and each of the 27 letter forms
\* on its own
HebrewTexts ==
  SeqsUpTo(HEBREW_TEXT_CHARS, MaxHebrewLen)
    \cup { << HEBREW_LETTERS[i] >> : i \in 1..Len(HEBREW_LETTERS) }

MUSAFI_OPTIONS == { NoFlags, [musafi |-> "letters"], [musafi |-> "words"] }

CIPHER_OPTIONS ==
  { NoFlags, [preserveFinalForms |-> FALSE], [preserveFinalForms |-> TRUE] }

InitHebrew ==
  /\ RegistryLoaded
  /\ text \in HebrewTexts
  /\ words = << >>
  /\ lastIndex = 0
  /\ number = 0
  /\ result = NoCall
  /\ NoSources
  /\ NoContainers

\* extractLetters(text): a global match, which leaves the regex at 0
ExtractLetters ==
  /\ Idle
  /\ result' = [op |-> "extractLetters", out |-> extractLetters(text)]
  /\ lastIndex' = 0
  /\ UNCHANGED << sourceVars, lazyVars, methods, simpleNameIndex, calls, text, words, number >>

\* countWords(text), starting from whatever the regex holds
CountWords ==
  /\ Idle
  /\ result' = [op |-> "countWords", out |-> countWords(lastIndex, text).count]
  /\ lastIndex' = countWords(lastIndex, text).lastIndex
  /\ UNCHANGED << sourceVars, lazyVars, methods, simpleNameIndex, calls, text, words, number >>

\* misparX(text) and misparX(text, { musafi })
Mispar ==
  /\ Idle
  /\ \E system \in Range(HEBREW_SYSTEMS), options \in MUSAFI_OPTIONS :
       result' = [op |-> "mispar", system |-> system, options |-> options,
                  out |-> mispar(system, text, options)]
  /\ lastIndex' = lastIndexAfterTable(text)
  /\ UNCHANGED << sourceVars, lazyVars, methods, simpleNameIndex, calls, text, words, number >>

\* a name SYSTEMS does not hold, and names it inherits: a function without
\* `values`, the constructor Object, and the accessor __proto__
OTHER_SYSTEM_NAMES == { "misparNone", "toString", "constructor", "__proto__" }

\* hebrew.gematria.computeAll(text) and computeAll(text, { musafi })
HebrewComputeAll ==
  /\ Idle
  /\ \E options \in MUSAFI_OPTIONS :
       result' = [op |-> "hebrew.computeAll", options |-> options,
                  out |-> hebrew_computeAll(text, options)]
  /\ lastIndex' = lastIndexAfterTable(text)
  /\ UNCHANGED << sourceVars, lazyVars, methods, simpleNameIndex, calls, text, words, number >>

\* hebrew.gematria.compute(text, system, options)
HebrewCompute ==
  /\ Idle
  /\ \E system \in Range(HEBREW_SYSTEMS) \cup OTHER_SYSTEM_NAMES,
        options \in MUSAFI_OPTIONS :
       /\ result' = [op |-> "hebrew.compute", system |-> system,
                     options |-> options,
                     out |-> hebrew_compute(text, system, options)]
       /\ lastIndex' = IF SystemDef(system).kind # "undefined"
                       THEN lastIndexAfterTable(text) ELSE lastIndex
  /\ UNCHANGED << sourceVars, lazyVars, methods, simpleNameIndex, calls, text, words, number >>

\* the legacy computeReduced(text)
LegacyComputeReduced ==
  /\ Idle
  /\ result' = [op |-> "legacy.computeReduced", out |-> legacy_computeReduced(text)]
  /\ UNCHANGED << sourceVars, lazyVars, methods, simpleNameIndex, calls, text, words, lastIndex, number >>

\* atbash(text, options) and albam(text, options)
Cipher ==
  /\ Idle
  /\ \E cipher \in { "atbash", "albam" }, options \in CIPHER_OPTIONS :
       result' = [op |-> "cipher", cipher |-> cipher, options |-> options,
                  out |-> IF cipher = "atbash" THEN atbash(text, options)
                          ELSE albam(text, options)]
  /\ UNCHANGED << sourceVars, lazyVars, methods, simpleNameIndex, calls, text, words, lastIndex, number >>

NextHebrew ==
  \/ ExtractLetters
  \/ CountWords
  \/ Mispar
  \/ HebrewCompute
  \/ HebrewComputeAll
  \/ LegacyComputeReduced
  \/ Cipher
  \/ Return

SpecHebrew == InitHebrew /\ [][NextHebrew]_vars

(***************************************************************************)
(* Source registry (index.ts registerSource .. clearSources)               *)
(***************************************************************************)
\* a ScriptureSource: its edition name and, standing for loadVerse, what the
\* loader does for verse 1, 2, ...
Source(edition, verses) == [edition |-> edition, verses |-> verses]

MapDelete(m, k) == SelectSeq(m, LAMBDA e : e.key # k)

\* new Map(m)
MapCopy(m) == [i \in 1..Len(m) |-> m[i]]

sourcesAfterRegister(m, source) == MapSet(m, source.edition, source)

getSource(edition) == MapGet(sources, edition)

hasEdition(edition) == MapHas(sources, edition)

RECURSIVE StringLess(_, _)
\* a < b for strings, by UTF-16 code units: the order of Array.prototype.sort
\* without a comparator
StringLess(a, b) ==
  IF b = << >> THEN FALSE
  ELSE IF a = << >> THEN TRUE
  ELSE IF CodePoint(Head(a)) # CodePoint(Head(b))
       THEN CodePoint(Head(a)) < CodePoint(Head(b))
  ELSE StringLess(Tail(a), Tail(b))

RECURSIVE InsertInOrder(_, _)
InsertInOrder(sorted, x) ==
  IF sorted = << >> THEN << x >>
  ELSE IF StringLess(x, Head(sorted)) THEN << x >> \o sorted
  ELSE << Head(sorted) >> \o InsertInOrder(Tail(sorted), x)

RECURSIVE ArraySort(_)
\* array.sort() on an array of strings
ArraySort(a) ==
  IF a = << >> THEN << >>
  ELSE InsertInOrder(ArraySort(SubSeq(a, 1, Len(a) - 1)), a[Len(a)])

\* a listing in registration order
listEditions_unsorted == MapKeys(sources)

listEditions == ArraySort(MapKeys(sources))

getAllSources == MapCopy(sources)

MaxSourceCalls == 3

\* edition names as strings of characters: 'WLC', 'sb' and 'sbl'
EDITIONS == { << "W", "L", "C" >>, << "s", "b" >>, << "s", "b", "l" >> }

\* two sources per edition, told apart by what their loader holds
SOURCES == { Source(e, v) : e \in EDITIONS, v \in { << "data" >>, << >> } }

Boolean(b) == [kind |-> "boolean", val |-> b]

InitSources ==
  /\ RegistryLoaded
  /\ text = << >>
  /\ words = << >>
  /\ lastIndex = 0
  /\ number = 0
  /\ result = NoCall
  /\ NoSources
  /\ NoContainers

RegisterSource(source) ==
  /\ Idle
  /\ Len(sourceCalls) < MaxSourceCalls
  /\ sources' = sourcesAfterRegister(sources, source)
  /\ sourceCalls' = Append(sourceCalls, [op |-> "register", source |-> source])
  /\ result' = [op |-> "registerSource", source |-> source, out |-> undefined]
  /\ UNCHANGED << lazyVars, methods, simpleNameIndex, calls, text, words, lastIndex,
                  number,
                  requests, pending >>

UnregisterSource(edition) ==
  /\ Idle
  /\ Len(sourceCalls) < MaxSourceCalls
  /\ sources' = MapDelete(sources, edition)
  /\ sourceCalls' = Append(sourceCalls, [op |-> "unregister", edition |-> edition])
  /\ result' = [op |-> "unregisterSource", edition |-> edition,
                out |-> Boolean(MapHas(sources, edition))]
  /\ UNCHANGED << lazyVars, methods, simpleNameIndex, calls, text, words, lastIndex,
                  number,
                  requests, pending >>

ClearSources ==
  /\ Idle
  /\ Len(sourceCalls) < MaxSourceCalls
  /\ sources' = << >>
  /\ sourceCalls' = Append(sourceCalls, [op |-> "clear"])
  /\ result' = [op |-> "clearSources", out |-> undefined]
  /\ UNCHANGED << lazyVars, methods, simpleNameIndex, calls, text, words, lastIndex,
                  number,
                  requests, pending >>

GetSource ==
  /\ Idle
  /\ \E edition \in EDITIONS :
       result' = [op |-> "getSource", edition |-> edition, out |-> getSource(edition)]
  /\ UNCHANGED << sourceVars, lazyVars, methods, simpleNameIndex, calls, text, words, lastIndex,
                  number >>

HasEdition ==
  /\ Idle
  /\ \E edition \in EDITIONS :
       result' = [op |-> "hasEdition", edition |-> edition,
                  out |-> Boolean(hasEdition(edition))]
  /\ UNCHANGED << sourceVars, lazyVars, methods, simpleNameIndex, calls, text, words, lastIndex,
                  number >>

ListEditions ==
  /\ Idle
  /\ result' = [op |-> "listEditions", out |-> listEditions]
  /\ UNCHANGED << sourceVars, lazyVars, methods, simpleNameIndex, calls, text, words, lastIndex,
                  number >>

\* const all = getAllSources(), after which the caller clears the map it got,
\* deletes an edition from it, or sets one in it
GetAllSources ==
  /\ Idle
  /\ \E change \in { [op |-> "clear"] }
                  \cup { [op |-> "delete", edition |-> e] : e \in EDITIONS }
                  \cup { [op |-> "set", source |-> x] : x \in SOURCES } :
       LET all == getAllSources
       IN  result' = [op |-> "getAllSources", out |-> all, change |-> change,
                      then |-> CASE change.op = "clear" -> << >>
                                 [] change.op = "delete" -> MapDelete(all, change.edition)
                                 [] change.op = "set" ->
                                      MapSet(all, change.source.edition, change.source)]
  /\ UNCHANGED << sourceVars, lazyVars, methods, simpleNameIndex, calls, text, words, lastIndex,
                  number >>

NextSources ==
  \/ \E source \in SOURCES : RegisterSource(source)
  \/ \E edition \in EDITIONS : UnregisterSource(edition)
  \/ ClearSources
  \/ GetSource
  \/ HasEdition
  \/ ListEditions
  \/ GetAllSources
  \/ Return

SpecSources == InitSources /\ [][NextSources]_vars

(***************************************************************************)
(* Verse queries (index.ts getVerse, getVersesInRange)                     *)
(***************************************************************************)
\* an Error object: its class and its message, the message cut into pieces
\* so that includes('not found') is membership of the piece 'not found'
ErrorObject(name, message) == [name |-> name, isError |-> TRUE, message |-> message]

RECURSIVE StringOf(_)
\* the characters of an edition name as one string
StringOf(chars) == IF chars = << >> THEN "" ELSE Head(chars) \o StringOf(Tail(chars))

EditionNotFoundError(edition) ==
  ErrorObject("EditionNotFoundError",
              << "Edition '", StringOf(edition), "' ", "not found",
                 ". Install the corresponding data package." >>)

BookNotFoundError(edition) ==
  ErrorObject("BookNotFoundError",
              << "Book '", "Genesis", "' ", "not found", " in edition '", StringOf(edition), "'." >>)

VerseNotFoundError(verse, edition) ==
  ErrorObject("VerseNotFoundError",
              << "Verse ", "Genesis", " ", "1", ":", ToString(verse), " ", "not found",
                 " in edition '", StringOf(edition), "'." >>)

MessageIncludesNotFound(error) == "not found" \in Range(error.message)

\* what a loader may do for one verse: hand over the data, or throw an Error
\* saying the verse is not found, a BookNotFoundError, an Error with another
\* message, or a value that is no Error
LOADER_OUTCOMES == { "data", "verseNotFound", "bookNotFound", "failure", "thrownString" }

\* await source.loadVerse(book, chapter, verse)
loadVerse(source, verse) ==
  LET outcome == source.verses[verse]
  IN  CASE outcome = "data" -> [kind |-> "data", verse |-> verse]
        [] outcome = "verseNotFound" ->
             Throw(ErrorObject("Error", << "Verse ", ToString(verse), " ", "not found" >>))
        [] outcome = "bookNotFound" -> Throw(BookNotFoundError(source.edition))
        [] outcome = "failure" -> Throw(ErrorObject("Error", << "read failed" >>))
        [] outcome = "thrownString" ->
             Throw([name |-> "(string)", isError |-> FALSE,
                    message |-> << "not found" >>])

\* getVerse up to its await: the source is read from the registry and, if
\* there is one, its loader is asked for the verse
beginGetVerse(verse, edition) ==
  [verse |-> verse, edition |-> edition, source |-> getSource(edition)]

\* the loader requests of that part
requestsOfGetVerse(call) ==
  IF call.source = undefined THEN << >> ELSE << call.verse >>

\* what the promise of getVerse settles to once the loader has answered
getVerse_outcome(call) ==
  LET data == loadVerse(call.source, call.verse)
  IN  IF call.source = undefined THEN Throw(EditionNotFoundError(call.edition))
      ELSE IF IsThrow(data)
           THEN IF data.error.isError /\ MessageIncludesNotFound(data.error)
                THEN Throw(VerseNotFoundError(call.verse, call.edition))
                ELSE data
      ELSE [kind |-> "verse", verse |-> call.verse, edition |-> call.edition]

\* a loop body that goes on to the next verse after a missing one
getVersesInRange_skipMissing(verse) ==
  IF ~IsThrow(verse) THEN "push"
  ELSE IF verse.error.name = "VerseNotFoundError" THEN "continue"
  ELSE "throw"

\* the loop body of getVersesInRange on the outcome of its getVerse: push the
\* verse, break on VerseNotFoundError, rethrow anything else
getVersesInRange_body(verse) ==
  IF ~IsThrow(verse) THEN "push"
  ELSE IF verse.error.name = "VerseNotFoundError" THEN "break"
  ELSE "throw"

MaxVerse == 3

\* the edition the source is registered under, and one more
QUERY_EDITIONS == { << "W", "L", "C" >>, << "s", "b" >> }

\* loaders that hold every verse but at most one
RANGE_LOADERS ==
  { [i \in 1..MaxVerse |-> IF i = at THEN outcome ELSE "data"] :
      at \in 1..MaxVerse, outcome \in LOADER_OUTCOMES }

\* the sources registered while a query waits: one that replaces the loader
\* of 'WLC' by a failing one, and a second edition
RANGE_SOURCES ==
  { Source(<< "W", "L", "C" >>, [i \in 1..MaxVerse |-> "failure"]),
    Source(<< "s", "b" >>, [i \in 1..MaxVerse |-> "data"]) }

InitRange ==
  /\ RegistryLoaded
  /\ text = << >>
  /\ words = << >>
  /\ lastIndex = 0
  /\ number = 0
  /\ result = NoCall
  /\ \E verses \in RANGE_LOADERS :
       LET source == Source(<< "W", "L", "C" >>, verses)
       IN  /\ sources = sourcesAfterRegister(<< >>, source)
           /\ sourceCalls = << [op |-> "register", source |-> source] >>
  /\ requests = << >>
  /\ pending = NoPending
  /\ NoContainers

\* getVerse(book, chapter, verse, { edition }) is called and runs to its await
GetVerse ==
  /\ Idle
  /\ pending = NoPending
  /\ \E verse \in 1..MaxVerse, edition \in QUERY_EDITIONS :
       LET call == beginGetVerse(verse, edition)
       IN  /\ pending' = [op |-> "getVerse", call |-> call]
           /\ requests' = requestsOfGetVerse(call)
  /\ UNCHANGED << lazyVars, methods, simpleNameIndex, calls, text, words, lastIndex,
                  number,
                  result, sources, sourceCalls >>

\* the loader has answered and getVerse delivers its outcome
GetVerseSettles ==
  /\ Idle
  /\ pending.op = "getVerse"
  /\ result' = [op |-> "getVerse", verse |-> pending.call.verse,
                edition |-> pending.call.edition,
                out |-> getVerse_outcome(pending.call)]
  /\ pending' = NoPending
  /\ UNCHANGED << lazyVars, methods, simpleNameIndex, calls, text, words, lastIndex,
                  number,
                  sources, sourceCalls, requests >>

\* getVersesInRange(book, chapter, startVerse, endVerse, { edition }) is
\* called: with an empty range it returns at once, otherwise it runs to the
\* await of its first getVerse
GetVersesInRange ==
  /\ Idle
  /\ pending = NoPending
  /\ \E startVerse \in 1..MaxVerse, endVerse \in 0..MaxVerse, edition \in QUERY_EDITIONS :
       LET call == beginGetVerse(startVerse, edition)
       IN  IF startVerse > endVerse
           THEN /\ result' = [op |-> "getVersesInRange", startVerse |-> startVerse,
                              endVerse |-> endVerse, edition |-> edition,
                              reports |-> << >>, callsAtStart |-> Len(sourceCalls),
                              out |-> [kind |-> "verses", verses |-> << >>]]
                /\ requests' = << >>
                /\ pending' = NoPending
           ELSE /\ pending' = [op |-> "getVersesInRange", startVerse |-> startVerse,
                               endVerse |-> endVerse, edition |-> edition,
                               verses |-> << >>, reports |-> << >>,
                               callsAtStart |-> Len(sourceCalls), call |-> call]
                /\ requests' = requestsOfGetVerse(call)
                /\ result' = result
  /\ UNCHANGED << lazyVars, methods, simpleNameIndex, calls, text, words, lastIndex,
                  number,
                  sources, sourceCalls >>

\* the awaited getVerse of a range has settled: one pass of the loop, up to
\* the await of the next getVerse or to the end of the call
GetVersesInRangeResumes ==
  /\ Idle
  /\ pending.op = "getVersesInRange"
  /\ LET verse == getVerse_outcome(pending.call)
         step == getVersesInRange_body(verse)
         verses == IF step = "push" THEN Append(pending.verses, verse)
                   ELSE pending.verses
         reports == Append(pending.reports, verse)
         num == pending.call.verse + 1
         over == step \in { "break", "throw" } \/ num > pending.endVerse
         next == beginGetVerse(num, pending.edition)
     IN  IF over
         THEN /\ result' = [op |-> "getVersesInRange",
                            startVerse |-> pending.startVerse,
                            endVerse |-> pending.endVerse,
                            edition |-> pending.edition,
                            reports |-> reports,
                            callsAtStart |-> pending.callsAtStart,
                            out |-> IF step = "throw" THEN verse
                                    ELSE [kind |-> "verses", verses |-> verses]]
              /\ pending' = NoPending
              /\ requests' = requests
         ELSE /\ pending' = [pending EXCEPT !.verses = verses, !.reports = reports,
                                            !.call = next]
              /\ requests' = requests \o requestsOfGetVerse(next)
              /\ result' = result
  /\ UNCHANGED << lazyVars, methods, simpleNameIndex, calls, text, words, lastIndex,
                  number,
                  sources, sourceCalls >>

\* getParallelVerses(book, chapter, verse) is called: it takes the list of
\* registered editions and runs to the await of the first getVerse
GetParallelVerses ==
  /\ Idle
  /\ pending = NoPending
  /\ \E verse \in 1..MaxVerse :
       LET editions == listEditions
           call == beginGetVerse(verse, Head(editions))
       IN  IF editions = << >>
           THEN /\ result' = [op |-> "getParallelVerses", verse |-> verse,
                              out |-> [kind |-> "map", entries |-> << >>]]
                /\ requests' = << >>
                /\ pending' = NoPending
           ELSE /\ pending' = [op |-> "getParallelVerses", verse |-> verse,
                               editions |-> Tail(editions), results |-> << >>,
                               call |-> call]
                /\ requests' = requestsOfGetVerse(call)
                /\ result' = result
  /\ UNCHANGED << lazyVars, methods, simpleNameIndex, calls, text, words, lastIndex,
                  number,
                  sources, sourceCalls >>

\* the awaited getVerse of getParallelVerses has settled: the verse is set
\* under its edition or the failure is dropped, then the next edition
GetParallelVersesResumes ==
  /\ Idle
  /\ pending.op = "getParallelVerses"
  /\ LET v == getVerse_outcome(pending.call)
         results == IF IsThrow(v) THEN pending.results
                    ELSE MapSet(pending.results, pending.call.edition, v)
         next == beginGetVerse(pending.verse, Head(pending.editions))
     IN  IF pending.editions = << >>
         THEN /\ result' = [op |-> "getParallelVerses", verse |-> pending.verse,
                            out |-> [kind |-> "map", entries |-> results]]
              /\ pending' = NoPending
              /\ requests' = requests
         ELSE /\ pending' = [pending EXCEPT !.editions = Tail(pending.editions),
                                            !.results = results, !.call = next]
              /\ requests' = requests \o requestsOfGetVerse(next)
              /\ result' = result
  /\ UNCHANGED << lazyVars, methods, simpleNameIndex, calls, text, words, lastIndex,
                  number,
                  sources, sourceCalls >>

NextRange ==
  \/ GetVerse
  \/ GetVerseSettles
  \/ GetVersesInRange
  \/ GetVersesInRangeResumes
  \/ GetParallelVerses
  \/ GetParallelVersesResumes
  \/ \E source \in RANGE_SOURCES : RegisterSource(source)
  \/ UnregisterSource(<< "W", "L", "C" >>)
  \/ Return

SpecRange == InitRange /\ [][NextRange]_vars

(***************************************************************************)
(* Verse-level container: properties                                       *)
(***************************************************************************)
\* C1: with includeColophons false or absent, a verse read sums only over
\* the words for which neither isColophon nor metadata.colophon is truthy, so
\* one flag alone excludes the word; with includeColophons true the read
\* equals the read of the full list.  Stated as: the read equals the read,
\* with the colophon rule switched off, of the list without the flagged words.
C1_ColophonExclusion ==
  result.op = "verse.get" =>
    LET inc == /\ "includeColophons" \in DOMAIN result.options
               /\ result.options.includeColophons
        byFlag(w) == "isColophon" \in DOMAIN w /\ w.isColophon
        byMetadata(w) == /\ "metadata" \in DOMAIN w
                         /\ "colophon" \in DOMAIN w.metadata
                         /\ w.metadata.colophon
        kept == IF inc THEN words
                ELSE SelectSeq(words, LAMBDA w : ~byFlag(w) /\ ~byMetadata(w))
        ruleOff == [variant |-> OptionVariant(result.options),
                    includeColophons |-> TRUE]
    IN  result.out = computeAggregate(kept, result.language, ruleOff, result.prop)

\* a default read of [βα, αϛ flagged by metadata.colophon only, with
\* isColophon false]: the second word (standard 7) is left out of the 3
C1_Witness ==
  /\ result.op = "verse.get"
  /\ result.options = NoFlags
  /\ result.prop = "standard"
  /\ words = << [text |-> << "β", "α" >>],
                [text |-> << "α", "ϛ" >>, isColophon |-> FALSE,
                 metadata |-> [colophon |-> TRUE]] >>
  /\ result.out = Num(3)

\* C2: a word tagged 'ketiv' is left out when 'qere' is selected (the
\* default), a word tagged 'qere' is left out when 'ketiv' is selected, and an
\* untagged word is never left out by this rule.  Stated as: the read equals
\* the read of the list without the words of the other variant, once the
\* remaining words have lost their tags.
C2_VariantExclusion ==
  result.op = "verse.get" =>
    LET selected == IF "variant" \in DOMAIN result.options
                    THEN result.options.variant ELSE "qere"
        other(w) == /\ "variant" \in DOMAIN w
                    /\ \/ selected = "qere" /\ w.variant = "ketiv"
                       \/ selected = "ketiv" /\ w.variant = "qere"
        kept == SelectSeq(words, LAMBDA w : ~other(w))
        untagged == [i \in 1..Len(kept) |->
                       [f \in DOMAIN kept[i] \ { "variant" } |-> kept[i][f]]]
    IN  result.out =
          computeAggregate(untagged, result.language, result.options, result.prop)

\* a default read of [βα tagged qere, αϛ tagged ketiv] gives the 3 of βα
C2_Witness ==
  /\ result.op = "verse.get"
  /\ result.options = NoFlags
  /\ result.prop = "standard"
  /\ words = << [text |-> << "β", "α" >>, variant |-> "qere"],
                [text |-> << "α", "ϛ" >>, variant |-> "ketiv"] >>
  /\ result.out = Num(3)

\* C3: a verse read never raises; a word whose computation raises adds
\* nothing, so the read equals the read of the list without the failing
\* words, and is the arithmetic sum of the included words' values when these
\* are all numbers.
C3_FailingWordContributesZero ==
  result.op = "verse.get" =>
    LET valueOf(w) == computeValue(w.text, result.prop, result.language)
        sound == SelectSeq(words, LAMBDA w : ~IsThrow(valueOf(w)))
        included == SelectSeq(sound,
                      LAMBDA w : /\ ~SkipsColophon(w, result.options)
                                 /\ ~SkipsVariant(w, result.options))
    IN  /\ ~IsThrow(result.out)
        /\ result.out =
             computeAggregate(sound, result.language, result.options, result.prop)
        /\ (\A i \in 1..Len(included) : valueOf(included[i]).kind = "number")
             => result.out =
                  Num(SumSeq([i \in 1..Len(included) |-> valueOf(included[i]).val]))

\* 'ordinal' over [βα, αϛ]: the stigma makes the second word fail, and the
\* read is the 3 of βα
C3_Witness ==
  /\ result.op = "verse.get"
  /\ result.prop = "ordinal"
  /\ result.language = "auto"
  /\ words = << [text |-> << "β", "α" >>], [text |-> << "α", "ϛ" >>] >>
  /\ IsThrow(computeValue(words[2].text, "ordinal", "auto"))
  /\ result.out = Num(3)

(***************************************************************************)
(* Word-level container: properties                                        *)
(***************************************************************************)
\* C4: a word read returns a number, which is 0 when the name resolves to no
\* registered method and 0 when the resolved method raises on the text.
C4_WordReadReturnsNumber ==
  result.op = "word.get" =>
    LET lang == IF result.language = "auto" THEN detectLanguage(text)
                ELSE result.language
        methodDef == getMethod(result.prop, lang)
    IN  /\ result.out.kind = "number"
        /\ methodDef = undefined => result.out = Num(0)
        /\ (methodDef # undefined /\ IsThrow(ApplyCompute(methodDef.compute, text)))
             => result.out = Num(0)

(***************************************************************************)
(* Registry: properties                                                    *)
(***************************************************************************)
\* C5: whatever the language argument, getMethod(name, language) returns the
\* method held under the identifier `name` whenever there is one.
C5_ExactSlugWins ==
  (result.op = "getMethod" /\ \E i \in 1..Len(methods) : methods[i].key = result.name)
    => \E i \in 1..Len(methods) :
         /\ methods[i].key = result.name
         /\ result.out = methods[i].value

\* 'standard' is an identifier of an English method and an alias of a Hebrew
\* one: getMethod('standard', 'hebrew') returns the English method
C5_Witness ==
  /\ result.op = "getMethod"
  /\ result.name = "standard"
  /\ result.language = "hebrew"
  /\ MapHas(simpleNameIndex, "hebrew:standard")
  /\ result.out.slug = "standard"
  /\ result.out.language = "english"

\* C6: with no language, or 'auto', and a name that is no identifier,
\* getMethod returns the alias entry of the first of hebrew, greek, english
\* that has the alias, and undefined when none has; 'standard' resolves to
\* the Hebrew method.
C6_CrossLanguageOrder ==
  ( /\ result.op = "getMethod"
    /\ result.language \in { UNDEFINED, "auto" }
    /\ \A i \in 1..Len(methods) : methods[i].key # result.name )
    => LET has(L) == \E i \in 1..Len(simpleNameIndex) :
                       simpleNameIndex[i].key = L \o ":" \o result.name
           entry(L) == simpleNameIndex[
                         CHOOSE i \in 1..Len(simpleNameIndex) :
                           simpleNameIndex[i].key = L \o ":" \o result.name].value
       IN  /\ result.out = IF has("hebrew") THEN entry("hebrew")
                           ELSE IF has("greek") THEN entry("greek")
                           ELSE IF has("english") THEN entry("english")
                           ELSE undefined
           /\ result.name = "standard" => result.out.language = "hebrew"

\* getMethod('standard') with Greek and English also holding the alias
C6_Witness ==
  /\ result.op = "getMethod"
  /\ result.name = "standard"
  /\ result.language = UNDEFINED
  /\ MapHas(simpleNameIndex, "greek:standard")
  /\ MapHas(simpleNameIndex, "english:standard")
  /\ result.out.slug = "mispar_hechrachi"

\* C7: getMethod(id) returns the method of the most recent registerMethod
\* call with that slug; getMethod(alias, L), for a non-empty alias that is no
\* slug, returns the method of the most recent call with language L and that
\* simpleName; listMethods() holds one entry per distinct slug.
C7_LastRegistrationWins ==
  LET bySlug == { i \in 1..Len(calls) : calls[i].slug = result.name }
      byAlias == { i \in 1..Len(calls) :
                     /\ calls[i].language = result.language
                     /\ SimpleNameOf(calls[i]) = result.name }
      last(S) == CHOOSE i \in S : \A j \in S : j <= i
      slugs == { calls[i].slug : i \in 1..Len(calls) }
  IN  /\ (result.op = "getMethod" /\ bySlug # {})
           => result.out = calls[last(bySlug)]
      /\ ( /\ result.op = "getMethod"
           /\ bySlug = {}
           /\ result.name # ""
           /\ byAlias # {} )
           => result.out = calls[last(byAlias)]
      /\ (result.op = "listMethods" /\ result.language \in { UNDEFINED, "auto" })
           => /\ { result.out[i].slug : i \in 1..Len(result.out) } = slugs
              /\ Len(result.out) = Cardinality(slugs)

\* 'custom' registered twice, with different aliases and languages: the
\* lookup returns the second method
C7_Witness ==
  /\ result.op = "getMethod"
  /\ result.name = "custom"
  /\ Len(calls) = Len(CORE_METHODS) + 2
  /\ calls[Len(calls) - 1].name = "Custom"
  /\ calls[Len(calls)].name = "Custom Again"
  /\ result.out.name = "Custom Again"

\* C8: every method the alias index holds is the method the identifier map
\* holds under its slug, and its alias is listed by listSimpleNames of its
\* language.
C8_AliasIndexAgreesWithMethods ==
  \A i \in 1..Len(simpleNameIndex) :
    LET m == simpleNameIndex[i].value
    IN  /\ MapGet(methods, m.slug) = m
        /\ m.simpleName \in Range(listSimpleNames(m.language))

(***************************************************************************)
(* Greek ordinal: properties                                               *)
(***************************************************************************)
\* C9: computeOrdinal in strict mode (the default) raises exactly when the
\* text holds a stigma, koppa or sampi of either case, and the error lists
\* each distinct one once; in lenient mode it never raises and returns the
\* sum of the positions of the other letters; without archaic letters the
\* two modes agree.
C9_StrictAndLenientOrdinal ==
  result.op = "isopsephy.computeOrdinal" =>
    LET strict == IF result.args = << >> THEN TRUE ELSE result.args[1]
        episema == { "Ϛ", "ϛ", "Ϟ", "ϟ", "Ϡ", "ϡ" }
        present == Range(text) \cap episema
        letters == isopsephy_extractGreekLetters(text)
        others == SelectSeq(letters, LAMBDA c : c \notin episema)
        positions == SumSeq([i \in 1..Len(others) |-> Lookup(ORDINAL, others[i])])
        list == result.out.error.archaicList
    IN  /\ IsThrow(result.out) <=> (strict /\ present # {})
        /\ IsThrow(result.out)
             => /\ Range(list) = present
                /\ \A i, j \in 1..Len(list) : list[i] = list[j] => i = j
        /\ ~IsThrow(result.out) => result.out = Num(positions)
        /\ present = {} => result.out = isopsephy_computeOrdinal(text, ~strict)

\* computeOrdinal('ϛϛ') raises, naming the stigma once
C9_Witness ==
  /\ result.op = "isopsephy.computeOrdinal"
  /\ result.args = << >>
  /\ text = << "ϛ", "ϛ" >>
  /\ IsThrow(result.out)
  /\ result.out.error.archaicList = << "ϛ" >>

\* C10, as stated: isopsephy computeAll, computeGreek and compute on Greek
\* text never raise on an archaic letter and return the lenient ordinal.
C10_AllEntryPointsLenient ==
  LET toGreek == /\ result.op = "compute"
                 /\ ~IsBlank(text)
                 /\ IF result.language \in { UNDEFINED, "auto" }
                    THEN detectLanguage(text) = "greek"
                    ELSE result.language = "greek"
  IN  /\ result.op = "isopsephy.computeAll"
           => /\ ~IsThrow(result.out)
              /\ result.out.ordinal = isopsephy_computeOrdinal(text, FALSE).val
      /\ (result.op = "computeGreek" \/ toGreek)
           => /\ ~IsThrow(result.out)
              /\ result.out.ordinal = computeGreekOrdinal(text, FALSE).val

\* C10, amended: only isopsephy computeAll is lenient; computeGreek, and
\* compute when it dispatches to Greek, evaluate ordinal in strict mode: they
\* raise the archaic-letter error exactly when the text holds an archaic
\* letter, and return standard, ordinal and reduced otherwise.
C10_OnlyComputeAllIsLenient ==
  LET toGreek == /\ result.op = "compute"
                 /\ ~IsBlank(text)
                 /\ IF result.language \in { UNDEFINED, "auto" }
                    THEN detectLanguage(text) = "greek"
                    ELSE result.language = "greek"
      episema == { "Ϛ", "ϛ", "Ϟ", "ϟ", "Ϡ", "ϡ" }
      present == Range(text) \cap episema
  IN  /\ result.op = "isopsephy.computeAll"
           => result.out = Values(isopsephy_computeStandard(text),
                                  isopsephy_computeOrdinal(text, FALSE).val,
                                  isopsephy_computeReduced(text))
      /\ (result.op = "computeGreek" \/ toGreek)
           => /\ IsThrow(result.out) <=> present # {}
              /\ IsThrow(result.out)
                   => /\ result.out.error.name = "Error"
                      /\ Range(result.out.error.archaicList) = present
              /\ ~IsThrow(result.out)
                   => result.out = Values(computeGreekStandard(text),
                                          computeGreekOrdinal(text, FALSE).val,
                                          computeGreekReduced(text))

\* computeGreek('αϛ') raises on the stigma, while the text's standard value
\* is 7
C10_Witness ==
  /\ result.op = "computeGreek"
  /\ text = << "α", "ϛ" >>
  /\ IsThrow(result.out)
  /\ result.out.error.archaicList = << "ϛ" >>
  /\ computeGreekStandard(text) = 7
(***************************************************************************)
(* Empty input: properties                                                 *)
(***************************************************************************)
\* C11: compute raises the empty-input GematriaError exactly when the text
\* is empty or only whitespace, whatever the language option; the
\* per-language functions and every single-system function return 0 for
\* every value on such text and do not raise.
C11_EmptyInputError ==
  LET blank == \A i \in 1..Len(text) : text[i] = " "
      emptyInput == [kind |-> "throw",
                     error |-> [name |-> "GematriaError",
                                message |-> "Input text cannot be empty"]]
  IN  /\ result.op = "compute" => (result.out = emptyInput <=> blank)
      /\ ( /\ blank
           /\ result.op \in { "computeHebrew", "computeGreek", "computeEnglish",
                               "isopsephy.computeAll" } )
           => result.out = Values(0, 0, 0)
      /\ (blank /\ result.op \in { "single", "isopsephy.computeOrdinal" })
           => result.out = Num(0)

\* compute('  ', { language: 'greek' }) raises the empty-input error
C11_Witness ==
  /\ result.op = "compute"
  /\ text = << " ", " " >>
  /\ result.language = "greek"
  /\ IsThrow(result.out)
  /\ result.out.error.message = "Input text cannot be empty"
(***************************************************************************)
(* Hebrew gematria module: properties                                      *)
(***************************************************************************)
\* the number of maximal runs of non-whitespace characters of the text under
\* analysis that hold at least one Hebrew consonant
HebrewTokenCount ==
  Cardinality({ i \in 1..Len(text) :
    /\ ~IsWhitespace(text[i])
    /\ (i = 1 \/ IsWhitespace(text[i - 1]))
    /\ \E j \in i..Len(text) :
         /\ IsHebrewLetter(text[j])
         /\ \A k \in i..j : ~IsWhitespace(text[k]) })

\* the number of Hebrew consonants of the text under analysis
HebrewLetterCount ==
  Cardinality({ i \in 1..Len(text) : IsHebrewLetter(text[i]) })

\* C12: for each of the nine systems, the musafi modifier 'letters' adds the
\* number of Hebrew consonants of the text to the plain value, and 'words'
\* adds the number of whitespace-delimited tokens that contain a Hebrew
\* consonant; the amount added is the same for every system.
C12_MusafiAddsCounts ==
  result.op = "mispar" =>
    LET plain == mispar(result.system, text, NoFlags)
        musafi == OptionMusafi(result.options)
    IN  /\ musafi = UNDEFINED => result.out = plain
        /\ musafi = "letters" => result.out = plain + HebrewLetterCount
        /\ musafi = "words" => result.out = plain + HebrewTokenCount

\* C13: every call gives the result the same call gives on a freshly loaded
\* module, whatever calls came before; nothing depends on the lastIndex an
\* earlier call left in the module-level letter regex.
C13_HebrewFunctionsPure ==
  /\ result.op = "extractLetters" => result.out = extractLetters(text)
  /\ result.op = "countWords" => result.out = countWords(0, text).count
  /\ result.op = "mispar" =>
       result.out = mispar(result.system, text, result.options)
  /\ result.op = "hebrew.compute" =>
       result.out = hebrew_compute(text, result.system, result.options)

(***************************************************************************)
(* Temurah ciphers: properties                                             *)
(***************************************************************************)
\* ך ם ן ף ץ as their base forms, every other character as itself
BaseForm(c) ==
  CASE c = "ך" -> "כ"
    [] c = "ם" -> "מ"
    [] c = "ן" -> "נ"
    [] c = "ף" -> "פ"
    [] c = "ץ" -> "צ"
    [] OTHER -> c

\* C14: for atbash and albam, applying the cipher to its own output gives
\* the input with every final form replaced by its base form (so the input
\* itself when it has no final form); a character outside the 27 Hebrew
\* letter forms is passed through unchanged, and the output has as many
\* characters as the input.
C14_CipherTwiceIsBaseForm ==
  result.op = "cipher" =>
    LET twice == IF result.cipher = "atbash"
                 THEN atbash(result.out, result.options)
                 ELSE albam(result.out, result.options)
    IN  /\ Len(result.out) = Len(text)
        /\ twice = [i \in 1..Len(text) |-> BaseForm(text[i])]
        /\ \A i \in 1..Len(text) :
             text[i] \notin Range(HEBREW_LETTERS) => result.out[i] = text[i]
        /\ (\A i \in 1..Len(text) : BaseForm(text[i]) = text[i]) => twice = text

\* atbash('ךaט') is 'לaנ', and atbash of that is 'כaט'
C14_Witness ==
  /\ result.op = "cipher"
  /\ result.cipher = "atbash"
  /\ text = << "ך", "a", "ט" >>
  /\ result.out = << "ל", "a", "נ" >>
  /\ atbash(result.out, result.options) = << "כ", "a", "ט" >>

(***************************************************************************)
(* Greek normalisation: properties                                         *)
(***************************************************************************)
\* what one character of the input adds to the standard value: a letter its
\* table value, an iota subscript 10 (alone or carried by a letter), every
\* other diacritic and every character outside the table 0
StandardContribution(c) ==
  CASE c = "ᾳ" -> Lookup(STANDARD, "α") + 10
    [] c = "U+0345" -> 10
    [] c = "ά" -> Lookup(STANDARD, "α")
    [] c = "U+0301" -> 0
    [] OTHER -> Lookup(STANDARD, c)

\* C15: the standard isopsephy value counts every iota subscript as a full
\* iota (10) and every other combining mark as 0; standard(ᾳ) and
\* standard(αι) are both 11.
C15_IotaSubscriptCountsTen ==
  result.op = "isopsephy.computeStandard" =>
    /\ result.out =
         SumSeq([i \in 1..Len(text) |-> StandardContribution(text[i])])
    /\ text \in { << "ᾳ" >>, << "α", "ι" >>, << "α", "U+0345" >> }
         => result.out = 11
    /\ text = << "ά" >> => result.out = 1

\* computeStandard('ᾳ') is 11
C15_Witness ==
  /\ result.op = "isopsephy.computeStandard"
  /\ text = << "ᾳ" >>
  /\ result.out = 11

(***************************************************************************)
(* Digital root: properties                                                *)
(***************************************************************************)
\* C16: for every non-negative integer n, digitalRoot returns 0 for n = 0
\* and 1 + ((n - 1) mod 9) for n >= 1, a single digit in 1..9 (9, never 0,
\* for a multiple of 9), and digitalRoot of the result is the result.  For
\* n = coefficient * 10^exponent with coefficient >= 1, (n - 1) mod 9 is
\* (coefficient - 1) mod 9, since 10 mod 9 = 1.
C16_DigitalRootClosedForm ==
  result.op = "digitalRoot" =>
    /\ number.coefficient = 0 => result.out = Num(0)
    /\ number.coefficient >= 1 =>
         /\ result.out = Num(1 + ((number.coefficient - 1) % 9))
         /\ result.out.kind = "number"
         /\ result.out.val \in 1..9
         /\ digitalRoot(result.out.val) = result.out.val

(***************************************************************************)
(* Language detection: properties                                          *)
(***************************************************************************)
\* the text under analysis holds a character of the Greek block
\* (U+0370..U+03FF) or the Greek Extended block (U+1F00..U+1FFF)
TextHasGreekBlockChar ==
  \E i \in 1..Len(text) :
     \/ (CodePoint(text[i]) >= 880 /\ CodePoint(text[i]) <= 1023)
     \/ (CodePoint(text[i]) >= 7936 /\ CodePoint(text[i]) <= 8191)

\* C17 as stated: detectLanguage returns 'hebrew' exactly when the text
\* holds a Hebrew letter (U+05D0..U+05EA), otherwise 'greek' exactly when it
\* holds a character of the Greek blocks, otherwise 'english'; never 'auto'.
C17_HebrewIffLetter ==
  result.op = "detectLanguage" =>
    LET hasLetter == \E i \in 1..Len(text) : text[i] \in Range(HEBREW_LETTERS)
    IN  /\ result.out \in { "hebrew", "greek", "english" }
        /\ result.out = "hebrew" <=> hasLetter
        /\ result.out = "greek" <=> (~hasLetter /\ TextHasGreekBlockChar)

\* C17: detectLanguage returns 'hebrew' exactly when the text holds a
\* character of the Hebrew block U+0590..U+05FF (a letter, a vowel point, an
\* accent or a punctuation mark of that block), otherwise 'greek' exactly
\* when it holds a character of the Greek or Greek Extended blocks,
\* otherwise 'english'; one such character is enough however many others
\* there are, Hebrew wins over Greek, and the result is never 'auto'.
C17_HebrewIffBlock ==
  result.op = "detectLanguage" =>
    LET hasHebrew == \E i \in 1..Len(text) :
                       CodePoint(text[i]) >= 1424 /\ CodePoint(text[i]) <= 1535
    IN  /\ result.out \in { "hebrew", "greek", "english" }
        /\ result.out = "hebrew" <=> hasHebrew
        /\ result.out = "greek" <=> (~hasHebrew /\ TextHasGreekBlockChar)
        /\ result.out = "english" <=> (~hasHebrew /\ ~TextHasGreekBlockChar)

\* a Greek letter followed by a Hebrew vowel point is 'hebrew'
C17_Witness ==
  /\ result.op = "detectLanguage"
  /\ text = << "α", "U+05B0" >>
  /\ result.out = "hebrew"

(***************************************************************************)
(* Hebrew letter tables: properties                                        *)
(***************************************************************************)
FINAL_FORMS == { "ך", "ם", "ן", "ף", "ץ" }

\* the text under analysis with every final form replaced by its base form
TextInBaseForms == [i \in 1..Len(text) |-> BaseForm(text[i])]

\* C18: in every table but Mispar Gadol a final form has the value of its
\* base letter, so replacing finals by base forms leaves those eight values
\* of any text unchanged; in Mispar Gadol the finals are 500, 600, 700, 800,
\* 900 and every other letter has its Mispar Hechrachi value, so
\* misparGadol(t) >= misparHechrachi(t), with equality exactly when t holds
\* no final form.
C18_FinalFormValues ==
  /\ \A system \in Range(HEBREW_SYSTEMS) \ { "misparGadol" } :
       \A c \in FINAL_FORMS :
         SystemTable(system)[c] = SystemTable(system)[BaseForm(c)]
  /\ MISPAR_GADOL["ך"] = 500 /\ MISPAR_GADOL["ם"] = 600
  /\ MISPAR_GADOL["ן"] = 700 /\ MISPAR_GADOL["ף"] = 800
  /\ MISPAR_GADOL["ץ"] = 900
  /\ \A c \in Range(HEBREW_LETTERS) \ FINAL_FORMS :
       MISPAR_GADOL[c] = MISPAR_HECHRACHI[c]
  /\ result.op = "mispar" =>
       LET hechrachi == mispar("misparHechrachi", text, result.options)
           hasFinal == \E i \in 1..Len(text) : text[i] \in FINAL_FORMS
       IN  IF result.system = "misparGadol"
           THEN /\ result.out >= hechrachi
                /\ result.out = hechrachi <=> ~hasFinal
           ELSE result.out = mispar(result.system, TextInBaseForms, result.options)

\* misparGadol('ך') is 500 where misparHechrachi('ך') is 20
C18_Witness ==
  /\ result.op = "mispar"
  /\ result.system = "misparGadol"
  /\ text = << "ך" >>
  /\ result.out = 500
  /\ mispar("misparHechrachi", text, result.options) = 20

\* the value each derived system gives a letter form by its rule: the
\* square and the cube of the standard value, the sum of the standard values
\* of the alphabet up to the letter's base form, the triangular number of
\* the ordinal position, and 1
DerivedValue(system, c) ==
  LET h == MISPAR_HECHRACHI[c]
      n == MISPAR_SIDURI[c]
      position == IndexOf(HEBREW_ALPHABET, BaseForm(c))
  IN  CASE system = "misparPerati" -> h * h
        [] system = "misparMeshulash" -> h * h * h
        [] system = "misparKolel" ->
             SumSeq([i \in 1..position |-> MISPAR_HECHRACHI[HEBREW_ALPHABET[i]]])
        [] system = "misparHakadmi" -> (n * (n + 1)) \div 2
        [] system = "misparChitzon" -> 1

DERIVED_SYSTEMS ==
  { "misparPerati", "misparMeshulash", "misparKolel", "misparHakadmi",
    "misparChitzon" }

\* C19: for each of the 27 letter forms, MISPAR_PERATI is the square and
\* MISPAR_MESHULASH the cube of the Hechrachi value, MISPAR_KOLEL the sum of
\* the standard values of the alphabet up to the letter's base form,
\* MISPAR_HAKADMI n(n+1)/2 for n the Siduri value, and MISPAR_CHITZON 1; a
\* plain misparX call returns the sum of these over the letters of the
\* text, and misparChitzon the number of letters.
C19_DerivedTablesFollowFormulas ==
  /\ \A system \in DERIVED_SYSTEMS : \A c \in Range(HEBREW_LETTERS) :
       SystemTable(system)[c] = DerivedValue(system, c)
  /\ ( /\ result.op = "mispar"
       /\ result.system \in DERIVED_SYSTEMS
       /\ OptionMusafi(result.options) = UNDEFINED )
       => /\ result.out =
               SumSeq([i \in 1..Len(text) |->
                         IF text[i] \in Range(HEBREW_LETTERS)
                         THEN DerivedValue(result.system, text[i]) ELSE 0])
          /\ result.system = "misparChitzon" => result.out = HebrewLetterCount

\* misparKolel('ת') is 1495, the sum of all 22 standard values
C19_Witness ==
  /\ result.op = "mispar"
  /\ result.system = "misparKolel"
  /\ text = << "ת" >>
  /\ result.out = 1495
  /\ result.out = SumSeq([i \in 1..22 |-> MISPAR_HECHRACHI[HEBREW_ALPHABET[i]]])

(***************************************************************************)
(* Hebrew reduced value: properties                                        *)
(***************************************************************************)
\* the sum, over the Hebrew letters of the text under analysis, of the
\* digital root of the letter's Hechrachi value
SumOfLetterRoots ==
  SumSeq([i \in 1..Len(text) |->
            IF text[i] \in Range(HEBREW_LETTERS)
            THEN 1 + ((MISPAR_HECHRACHI[text[i]] - 1) % 9) ELSE 0])

\* C20: misparKatan(t) is the sum over the letters of t of the digital root
\* of each letter's standard value, which differs from the digital root of
\* the total once the sum passes 9; the table-driven misparKatan and the
\* legacy computeReduced give the same number for every text.
C20_ReducedIsPerLetter ==
  /\ ( /\ result.op = "mispar"
       /\ result.system = "misparKatan"
       /\ OptionMusafi(result.options) = UNDEFINED )
       => /\ result.out = SumOfLetterRoots
          /\ result.out = legacy_computeReduced(text)
  /\ result.op = "legacy.computeReduced"
       => /\ result.out = SumOfLetterRoots
          /\ result.out = mispar("misparKatan", text, NoFlags)

\* computeReduced('טט') is 9 + 9 = 18, not the digital root 9 of the total
C20_Witness ==
  /\ result.op = "legacy.computeReduced"
  /\ text = << "ט", "ט" >>
  /\ result.out = 18
  /\ digitalRoot(legacy_computeStandard(text)) = 9

(***************************************************************************)
(* English systems: properties                                             *)
(***************************************************************************)
\* the compute functions of the English systems other than
\* whitehead_objective
CASELESS_ENGLISH_FUNCTIONS ==
  { "computeEnglishOrdinal", "computeEnglishAgrippa", "computeWhiteheadGreek",
    "computeWhiteheadHebrew", "computeWhiteheadSubjective",
    "digitalRoot(computeEnglishOrdinal)" }

\* the text under analysis with a..z replaced by A..Z
TextInUpperCase ==
  [i \in 1..Len(text) |->
     IF CodePoint(text[i]) >= 97 /\ CodePoint(text[i]) <= 122
     THEN LATIN_UPPER[CodePoint(text[i]) - 96] ELSE text[i]]

LowerCaseCount ==
  Cardinality({ i \in 1..Len(text) :
                  CodePoint(text[i]) >= 97 /\ CodePoint(text[i]) <= 122 })

\* C21: computeWhiteheadObjective values A..Z as 1..26 and a..z as 27..52,
\* so it is computeOrdinal plus 26 for every lowercase letter; every other
\* English system gives a text and its upper-case form the same value.
C21_OnlyObjectiveIsCaseSensitive ==
  /\ \A i \in 1..26 :
       /\ WHITEHEAD_OBJECTIVE[LATIN_UPPER[i]] = i
       /\ WHITEHEAD_OBJECTIVE[LATIN_LOWER[i]] = i + 26
       /\ \A table \in { SIMPLE_ORDINAL, AGRIPPA_LATIN, WHITEHEAD_GREEK,
                          WHITEHEAD_HEBREW_ENGLISH, WHITEHEAD_SUBJECTIVE } :
            Lookup(table, LATIN_LOWER[i]) = Lookup(table, LATIN_UPPER[i])
  /\ result.op = "single" =>
    /\ result.fn = "computeWhiteheadObjective" =>
         /\ result.out = Num(computeEnglishOrdinal(text) + 26 * LowerCaseCount)
         /\ result.out =
              Num(SumSeq([i \in 1..Len(text) |->
                    LET cp == CodePoint(text[i])
                    IN  IF cp >= 65 /\ cp <= 90 THEN cp - 64
                        ELSE IF cp >= 97 /\ cp <= 122 THEN cp - 70
                        ELSE 0]))
    /\ result.fn \in CASELESS_ENGLISH_FUNCTIONS =>
         result.out = ApplyCompute(result.fn, TextInUpperCase)

\* computeWhiteheadObjective('zA') is 52 + 1 where computeOrdinal is 26 + 1
C21_Witness ==
  /\ result.op = "single"
  /\ result.fn = "computeWhiteheadObjective"
  /\ text = << "z", "A" >>
  /\ result.out = Num(53)
  /\ ApplyCompute(result.fn, TextInUpperCase) = Num(27)

(***************************************************************************)
(* Verse construction: properties                                          *)
(***************************************************************************)
\* the positions of the raw words that are objects
ObjectPositions == { i \in 1..Len(words) : "entry" \notin DOMAIN words[i] }

\* the raw word at position i has lemma and morph both present and null
BothNull(i) ==
  /\ "lemma" \in DOMAIN words[i] /\ words[i].lemma = NULL
  /\ "morph" \in DOMAIN words[i] /\ words[i].morph = NULL

\* the positions the verse keeps, in order
KeptPositions == [j \in 1..Len(result.out) |-> result.out[j].position]

\* C22: a word object is dropped exactly when its lemma and morph are both
\* present and null and its text holds no Hebrew letter (U+05D0..U+05EA) and
\* no Greek letter; every other word is kept, in the original order.
C22_DroppedIffNullsAndNoLetter ==
  result.op = "dataToVerse" =>
    /\ \A j \in 1..(Len(result.out) - 1) : KeptPositions[j] < KeptPositions[j + 1]
    /\ \A i \in ObjectPositions :
         (i \notin Range(KeptPositions))
           <=> /\ BothNull(i)
               /\ \A k \in 1..Len(words[i].text) :
                    /\ words[i].text[k] \notin Range(HEBREW_LETTERS)
                    /\ words[i].text[k] \notin Range(GREEK_LOWER)
                    /\ words[i].text[k] \notin Range(GREEK_UPPER_1)
                    /\ words[i].text[k] \notin Range(GREEK_UPPER_2)

(***************************************************************************)
(* Verse text container: properties                                        *)
(***************************************************************************)
\* C23 as stated: for a verse with at least one word and no variant tags,
\* gematriaWithColophons[name] is the sum over all words, colophon words
\* included, of the word's value: what getGematria({ includeColophons:
\* true })[name] returns.
C23_WithColophonsIsWordSum ==
  ( /\ result.op = "verse.withColophons"
    /\ words # << >>
    /\ \A i \in 1..Len(words) : "variant" \notin DOMAIN words[i] )
    => result.out = createVerseGematriaProxy_get(
                      words, result.language, [includeColophons |-> TRUE],
                      result.prop)

\* C23: gematriaWithColophons[name] is the value of the method on the whole
\* raw text, every word counted whatever its colophon or variant fields.
\* With the language taken for the whole text and each word's value v(w) in
\* that language: it is 0 if any word's value raises; otherwise, for
\* 'reduced' in Greek or English, the digital root of the sum of the words'
\* standard values; otherwise the sum of the v(w).
C23_WithColophonsIsWholeText ==
  (result.op = "verse.withColophons" /\ words # << >>) =>
    LET some(P(_)) == \E i \in 1..Len(words) :
                        \E k \in 1..Len(words[i].text) : P(words[i].text[k])
        inHebrewBlock(c) == CodePoint(c) >= 1424 /\ CodePoint(c) <= 1535
        inGreekBlocks(c) == \/ (CodePoint(c) >= 880 /\ CodePoint(c) <= 1023)
                            \/ (CodePoint(c) >= 7936 /\ CodePoint(c) <= 8191)
        lang == IF result.language # "auto" THEN result.language
                ELSE IF some(inHebrewBlock) THEN "hebrew"
                ELSE IF some(inGreekBlocks) THEN "greek" ELSE "english"
        v(i, prop) == computeValue(words[i].text, prop, lang)
        sum(prop) == SumSeq([i \in 1..Len(words) |-> v(i, prop).val])
    IN  result.out =
          IF \E i \in 1..Len(words) : IsThrow(v(i, result.prop)) THEN Num(0)
          ELSE IF result.prop = "reduced" /\ lang \in { "greek", "english" }
          THEN Num(digitalRoot(sum("standard")))
          ELSE Num(sum(result.prop))

\* two Greek words, the first a colophon word: 'reduced' over the raw text
\* is the digital root 1 of 3 + 7, where the words' reduced values sum to 10
C23_Witness ==
  /\ result.op = "verse.withColophons"
  /\ result.prop = "reduced"
  /\ result.language = "auto"
  /\ Len(words) = 2
  /\ words[1] = [text |-> << "β", "α" >>, isColophon |-> TRUE]
  /\ words[2] = [text |-> << "α", "ϛ" >>]
  /\ result.out = Num(1)
  /\ createVerseGematriaProxy_get(words, "auto", [includeColophons |-> TRUE],
                                  "reduced") = Num(10)

(***************************************************************************)
(* Containers over time: properties                                        *)
(***************************************************************************)
\* the registerMethod calls so far, the module's own included, that gave the
\* slug `name`, and those that gave the alias `name` for `language`
C24_BySlug(name) == { i \in 1..Len(calls) : calls[i].slug = name }

C24_ByAlias(name, language) ==
  { i \in 1..Len(calls) :
      /\ calls[i].language = language
      /\ "simpleName" \in DOMAIN calls[i]
      /\ calls[i].simpleName = name }

C24_Latest(S) == CHOOSE i \in S : \A j \in S : j <= i

\* the function that answers `name` for `language` under the calls so far:
\* that of the latest method registered under the slug `name`, otherwise
\* that of the latest method registered under the alias `name` for the
\* language
C24_Answering(name, language) ==
  IF C24_BySlug(name) # {} THEN calls[C24_Latest(C24_BySlug(name))].compute
  ELSE calls[C24_Latest(C24_ByAlias(name, language))].compute

\* the script of each text of the bounds
C24_Script(t) == IF t = << "כ", "א" >> THEN "hebrew" ELSE "greek"

\* the values of the texts of the bounds, from the letter tables: iota alpha
\* is 10 + 1 and 9 + 1, alpha stigma is 1 + 6 and has no ordinal value, kaf
\* alef is 20 + 1 and 11 + 1; the Greek reduced value is the digital root of
\* the standard value; a text without Latin letters is 0 in English
C24_ValueUnder(fn, t) ==
  CASE fn = "computeEnglishOrdinal" -> 0
    [] t = << "ι", "α" >> /\ fn = "computeGreekStandard" -> 11
    [] t = << "ι", "α" >> /\ fn = "computeGreekOrdinal" -> 10
    [] t = << "α", "ϛ" >> /\ fn = "computeGreekStandard" -> 7
    [] t = << "α", "ϛ" >> /\ fn = "computeGreekOrdinal" -> 0
    [] t = << "ι", "α" >> /\ fn = "computeGreekReduced" -> 2
    [] t = << "α", "ϛ" >> /\ fn = "computeGreekReduced" -> 7
    [] t = << "כ", "א" >> /\ fn = "computeHebrewStandard" -> 21
    [] t = << "כ", "א" >> /\ fn = "computeHebrewOrdinal" -> 12

\* what a text is worth for a property name under the calls so far
C24_ValueNow(t, prop) ==
  C24_ValueUnder(C24_Answering(prop, C24_Script(t)), t)

\* the word is left out by a verse container with these options
C24_LeftOut(word, options) ==
  \/ /\ "isColophon" \in DOMAIN word
     /\ word.isColophon
     /\ ~options.includeColophons
  \/ /\ "variant" \in DOMAIN word
     /\ word.variant # options.variant

\* C24: constructing a container returns the container whatever the text or
\* the words are, raises nothing and computes nothing (the regex state and
\* the registry are as before, the options are taken with their defaults);
\* every read returns the value that the words array and the registerMethod
\* calls give at the time of the read, so two reads of the same property of
\* the same container with no push and no registerMethod in between are
\* equal, and a push or a registerMethod shows in the next read.
C24_ReadsFollowCurrentState ==
  /\ result.op = "create" =>
       /\ ~IsThrow(result.out)
       /\ containers[result.kind] = result.out
       /\ lastIndex = result.regexBefore
       /\ calls = result.callsBefore
       /\ result.kind = "word" =>
            /\ result.out.kind = "word"
            /\ result.out.text = result.text
       /\ result.kind = "verse" =>
            /\ result.out.kind = "verse"
            /\ result.out.options.variant =
                 (IF result.rest = << [variant |-> "ketiv"] >> THEN "ketiv" ELSE "qere")
            /\ result.out.options.includeColophons =
                 (result.rest = << [includeColophons |-> TRUE] >>)
  /\ (result.op = "read" /\ result.kind = "word") =>
       result.out = Num(C24_ValueNow(lastRead.container.text, result.prop))
  /\ (result.op = "read" /\ result.kind = "verse") =>
       result.out =
         Num(SumSeq([i \in 1..Len(words) |->
               IF C24_LeftOut(words[i], lastRead.container.options) THEN 0
               ELSE C24_ValueNow(words[i].text, result.prop)]))
  /\ ( /\ result.op = "read"
       /\ result.before # NoRead
       /\ result.before.kind = result.kind
       /\ result.before.prop = result.prop
       /\ result.before.container = lastRead.container
       /\ result.before.wordsThen = words
       /\ result.before.callsThen = calls )
       => result.out = result.before.out

\* a verse container built with includeColophons over the empty array reads
\* 'standard' as 0; after the push of the Hebrew colophon word the same
\* container reads 21, in a read that began with the regex where an earlier
\* Hebrew computation had left it
C24_Witness ==
  /\ result.op = "read"
  /\ result.kind = "verse"
  /\ result.prop = "standard"
  /\ result.before # NoRead
  /\ result.before.kind = "verse"
  /\ result.before.prop = "standard"
  /\ result.before.container = lastRead.container
  /\ lastRead.container.options.includeColophons
  /\ result.before.wordsThen = << >>
  /\ result.before.out = Num(0)
  /\ result.regexBefore = 1
  /\ words = << [text |-> << "כ", "א" >>, isColophon |-> TRUE] >>
  /\ result.out = Num(21)

\* C25: computeValue with the language 'auto' or omitted returns what
\* computeValue returns for the language detected from the text, an omitted
\* method name stands for 'standard', and a shared alias is answered by the
\* method the detected language registers under it.
SHARED_ALIASES == { "standard", "ordinal", "reduced" }

C25_AutoIsDetectedLanguage ==
  (result.op = "computeValue" /\ result.language \in { "auto", UNDEFINED }) =>
    LET name == IF result.method = UNDEFINED THEN "standard" ELSE result.method
        detected == detectLanguage(text)
        entry == MapGet(simpleNameIndex, IndexKey(detected, name))
    IN  /\ result.out = computeValue(text, name, detected)
        /\ (name \in SHARED_ALIASES /\ entry # undefined) =>
             result.out = ApplyCompute(entry.compute, text)

\* computeValue('α') with nothing else given returned the Greek standard value
C25_Witness ==
  /\ result.op = "computeValue"
  /\ result.method = UNDEFINED
  /\ result.language = UNDEFINED
  /\ text = << "α" >>
  /\ result.out = Num(1)
\* C26: the `in` test, Object.keys and spreading of a word-level container
\* never raise, and every value a spread yields is the value a direct read of
\* that property returns.
C26_EnumerationNeverRaises ==
  (result.op \in { "word.has", "word.enumerate" }) =>
    /\ ~IsThrow(result.out)
    /\ (result.out.kind = "object") =>
         \A i \in 1..Len(result.out.entries) :
           result.out.entries[i].value =
             createGematriaProxy_get(text, result.language, result.out.entries[i].key)
\* C27: with an explicit language other than 'auto' and a name that is no
\* registered identifier, getMethod returns the alias entry of that language
\* and nothing else: undefined when that language does not hold the alias,
\* whatever the other languages hold.
EXPLICIT_LANGUAGES == { "hebrew", "greek", "english" }

C27_ExplicitLanguageOnly ==
  ( /\ result.op = "getMethod"
    /\ result.language \in EXPLICIT_LANGUAGES
    /\ \A i \in 1..Len(methods) : methods[i].key # result.name )
    => LET own == { i \in 1..Len(simpleNameIndex) :
                      simpleNameIndex[i].key = result.language \o ":" \o result.name }
       IN  IF own = {} THEN result.out = undefined
           ELSE \E i \in own : result.out = simpleNameIndex[i].value

\* getMethod('kolel', 'hebrew') while only English holds the alias 'kolel'
C27_Witness ==
  /\ result.op = "getMethod"
  /\ result.name = "kolel"
  /\ result.language = "hebrew"
  /\ MapHas(simpleNameIndex, "english:kolel")
  /\ ~MapHas(simpleNameIndex, "hebrew:kolel")
  /\ result.out = undefined
(***************************************************************************)
(* Source registry: properties                                             *)
(***************************************************************************)
\* the calls that bear on an edition: its registrations, its
\* unregistrations, and every clearSources
CallsAbout(log, e) ==
  { i \in 1..Len(log) :
      \/ log[i].op = "clear"
      \/ log[i].op = "register" /\ log[i].source.edition = e
      \/ log[i].op = "unregister" /\ log[i].edition = e }

LatestCallAbout(log, e) ==
  log[CHOOSE i \in CallsAbout(log, e) : \A j \in CallsAbout(log, e) : j <= i]

\* the latest call about the edition was a registration
RegisteredBy(log, e) ==
  CallsAbout(log, e) # {} /\ LatestCallAbout(log, e).op = "register"

\* C29: after any sequence of registerSource, unregisterSource and
\* clearSources, listEditions() lists in ascending order exactly the editions
\* whose latest call was a registration, hasEdition(e) holds exactly when
\* getSource(e) is defined, getSource(e) is the source of the latest
\* registration of e, unregisterSource(e) returns whether e was registered,
\* and changing the map getAllSources() returned leaves the registry as it is.
C29_RegistryFollowsLatestCall ==
  LET before == SubSeq(sourceCalls, 1, Len(sourceCalls) - 1)
  IN  /\ \A e \in EDITIONS :
           /\ hasEdition(e) <=> (getSource(e) # undefined)
           /\ getSource(e) = IF RegisteredBy(sourceCalls, e)
                              THEN LatestCallAbout(sourceCalls, e).source
                              ELSE undefined
      /\ result.op = "listEditions" =>
           /\ Range(result.out) = { e \in EDITIONS : RegisteredBy(sourceCalls, e) }
           /\ \A i \in 1..(Len(result.out) - 1) :
                StringLess(result.out[i], result.out[i + 1])
      /\ result.op = "hasEdition" =>
           result.out.val = RegisteredBy(sourceCalls, result.edition)
      /\ result.op = "getSource" =>
           (result.out # undefined) = RegisteredBy(sourceCalls, result.edition)
      /\ result.op = "unregisterSource" =>
           result.out.val = RegisteredBy(before, result.edition)
      /\ result.op = "getAllSources" =>
           \A e \in EDITIONS :
             /\ MapGet(result.out, e) = getSource(e)
             /\ (result.change.op = "delete" /\ result.change.edition = e) =>
                  ~MapHas(result.then, e)

\* 'sbl' registered, then 'WLC', 'sbl' registered again with another source:
\* the listing puts 'WLC' first although it was registered second
C29_Witness ==
  /\ result.op = "listEditions"
  /\ Len(sourceCalls) = 3
  /\ sourceCalls[1].op = "register"
  /\ sourceCalls[3].op = "register"
  /\ sourceCalls[1].source = Source(<< "s", "b", "l" >>, << >>)
  /\ sourceCalls[2] = [op |-> "register", source |-> Source(<< "W", "L", "C" >>, << >>)]
  /\ sourceCalls[3].source = Source(<< "s", "b", "l" >>, << "data" >>)
  /\ result.out = << << "W", "L", "C" >>, << "s", "b", "l" >> >>
  /\ getSource(<< "s", "b", "l" >>).verses = << "data" >>
(***************************************************************************)
(* Verse ranges: properties                                                *)
(***************************************************************************)
\* C28: getVersesInRange returns the verses start..k in ascending order, k
\* being the last verse up to `end` before which every verse loaded; it stops
\* at the first verse getVerse reports as not found and asks the loader for
\* no later verse; an error of any other kind comes out as it is; the list is
\* empty when start > end or the first verse is missing.  `reports` holds what
\* the getVerse calls of the range gave, in order.
C28_RangeIsLoadedPrefix ==
  result.op = "getVersesInRange" =>
    LET a == result.startVerse
        b == result.endVerse
        e == result.edition
        reports == result.reports
        n == Len(reports)
        loaded(i) == ~IsThrow(reports[i])
        missing(i) == IsThrow(reports[i]) /\ reports[i].error.name = "VerseNotFoundError"
        prefix == SelectSeq(reports, LAMBDA r : ~IsThrow(r))
        table(v) == getVerse_outcome([verse |-> v, edition |-> e, source |-> getSource(e)])
        reached == { k \in (a - 1)..b : \A v \in a..k : ~IsThrow(table(v)) }
        k == IF reached = {} THEN a - 1
             ELSE CHOOSE x \in reached : \A y \in reached : y <= x
    IN  /\ \A i \in 1..(n - 1) : loaded(i)
        /\ \A i \in 1..n : loaded(i) => reports[i].verse = a + i - 1
        /\ IF n > 0 /\ ~loaded(n) /\ ~missing(n)
           THEN result.out = reports[n]
           ELSE /\ result.out = [kind |-> "verses", verses |-> prefix]
                /\ (n = 0 \/ loaded(n)) => n = (IF a > b THEN 0 ELSE b - a + 1)
        /\ \A i \in 1..Len(requests) : requests[i] = a + i - 1
        /\ Len(requests) <= n
        /\ (a > b \/ (n > 0 /\ missing(1))) =>
             result.out = [kind |-> "verses", verses |-> << >>]
        /\ Len(sourceCalls) = result.callsAtStart =>
             /\ IF k >= b \/ (IsThrow(table(k + 1))
                               /\ table(k + 1).error.name = "VerseNotFoundError")
                THEN result.out =
                       [kind |-> "verses", verses |-> [i \in 1..(k - a + 1) |-> table(a + i - 1)]]
                ELSE result.out = table(k + 1)
             /\ requests = IF getSource(e) = undefined THEN << >>
                           ELSE [i \in 1..((IF k >= b THEN k ELSE k + 1) - a + 1) |->
                                   a + i - 1]

\* verses 1..3 asked for, verse 2 missing: verse 1 comes back alone and the
\* loader is never asked for verse 3
C28_Witness ==
  /\ result.op = "getVersesInRange"
  /\ result.startVerse = 1
  /\ result.endVerse = 3
  /\ getSource(result.edition) # undefined
  /\ getSource(result.edition).verses = << "data", "verseNotFound", "data" >>
  /\ Len(result.out.verses) = 1
  /\ requests = << 1, 2 >>

(***************************************************************************)
(* Temurah options: properties                                             *)
(***************************************************************************)
\* C30: preserveFinalForms changes nothing: atbash and albam return with it
\* what they return without options, and no character of an output that
\* differs from the input character is a final form.
C30_PreserveFinalFormsNoEffect ==
  result.op = "cipher" =>
    LET plain == IF result.cipher = "atbash" THEN atbash(text, NoFlags)
                 ELSE albam(text, NoFlags)
    IN  /\ result.out = plain
        /\ \A i \in 1..Len(text) :
             result.out[i] # text[i] => result.out[i] \notin FINAL_FORMS

\* albam of final kaf, kaf with preserveFinalForms: both become tav
C30_Witness ==
  /\ result.op = "cipher"
  /\ result.cipher = "albam"
  /\ result.options = [preserveFinalForms |-> TRUE]
  /\ text = << "ך", "כ" >>
  /\ result.out = << "ת", "ת" >>

====
